---- MODULE Spec2Model ----
(***************************************************************************)
(* A model of the module runtime (Runtime) and of the resolver (Resolver). *)
(*                                                                         *)
(* Paths and module names are sequences of segments: the path "/p/a.js" is *)
(* <<"", "p", "a.js">> and the name "./a" is <<".", "a">>, i.e. what       *)
(* split('/') gives.  Cache keys built in the source as                    *)
(* `x + path.delimiter + y` are the pairs <<x, y>>.                        *)
(*                                                                         *)
(* The runtime is recursive (a module body calls require, which runs       *)
(* another body): the model keeps the call stack explicitly.  A step of    *)
(* the model is one call made by the harness or by the body on top of the  *)
(* stack, run up to the point where it either returns to a body or enters  *)
(* a new body; or a body's return, run through the continuations of the    *)
(* callers waiting for it.                                                 *)
(***************************************************************************)
EXTENDS Integers, Sequences, FiniteSets, TLC

VARIABLES
    \* Resolver
    defaultPlatform,        \* _options.defaultPlatform
    supportsNativePlatform, \* _supportsNativePlatform
    moduleNameCache,        \* _moduleNameCache
    \* process level
    normalizedIDCache,
    \* Runtime
    moduleRegistry,         \* _moduleRegistry: path -> module record (a reference)
    mockRegistry,           \* _mockRegistry: id -> value
    explicitShouldMock,     \* _explicitShouldMock: id -> BOOLEAN
    mockFactories,          \* _mockFactories: id -> factory
    virtualMocks,           \* _virtualMocks: the keys set to true
    shouldAutoMock,         \* _shouldAutoMock
    shouldMockModuleCache,  \* _shouldMockModuleCache: id -> BOOLEAN
    unmockTransitiveCache,  \* _shouldUnmockTransitiveDependenciesCache: keys set to true
    transitiveShouldMock,   \* _transitiveShouldMock: the ids set to false
    mockMetaDataCache,      \* _mockMetaDataCache: path -> metadata
    currentlyExecutingModulePath,
    isCurrentlyExecutingManualMock,
    envGlobal,              \* whether _environment.global is still there
    \* heap and control
    modules,                \* module records: reference -> [filename, exports]
    nextId,                 \* allocator of references
    stack,                  \* the call stack
    last,                   \* the last completed call and what it returned
    hist                    \* history kept for the properties

vars == <<defaultPlatform, supportsNativePlatform, moduleNameCache,
          normalizedIDCache, moduleRegistry, mockRegistry, explicitShouldMock,
          mockFactories, virtualMocks, shouldAutoMock, shouldMockModuleCache,
          unmockTransitiveCache, transitiveShouldMock, mockMetaDataCache,
          currentlyExecutingModulePath, isCurrentlyExecutingManualMock,
          envGlobal, modules, nextId, stack, last, hist>>

-----------------------------------------------------------------------------
(* Bounds *)

MaxCalls == 2      \* calls made by the harness and by module bodies in a run
MaxDepth == 6      \* frames on the call stack

-----------------------------------------------------------------------------
(* Generic helpers *)

EmptyFn == [x \in {} |-> 0]
Has(f, k) == k \in DOMAIN f
Put(f, k, v) == [x \in DOMAIN f \cup {k} |-> IF x = k THEN v ELSE f[x]]
Last(s) == s[Len(s)]
Front(s) == SubSeq(s, 1, Len(s) - 1)

None == <<"none">>          \* null / undefined where a path or a name is expected

-----------------------------------------------------------------------------
(* The fixture: the files, the haste index and the configuration *)

T   == <<"", "p", "t.js">>
PA  == <<"", "p", "a.js">>
PB  == <<"", "p", "b.js">>
PH  == <<"", "p", "h.js">>
PHN == <<"", "p", "h.native.js">>
PHI == <<"", "p", "h.ios.js">>
PD  == <<"", "p", "d.json">>
MX  == <<"", "p", "__mocks__", "X.js">>
NX  == <<"", "p", "node_modules", "X", "index.js">>
NH  == <<"", "p", "node_modules", "H", "index.js">>
NG  == <<"", "p", "node_modules", "G", "index.js">>
NL  == <<"", "p", "node_modules", "lib", "a.js">>
ND  == <<"", "p", "node_modules", "dep", "index.js">>
KP  == <<"", "p", "pkg", "package.json">>
KL  == <<"", "p", "pkg", "lib.js">>
SX  == <<"", "p", "node_modules", "stub", "x.js">>
SM  == <<"", "p", "__mocks__", "a.js">>    \* sibling __mocks__ of /p/a.js

Files == {T, PA, PB, PH, PHN, PHI, PD, MX, NX, NH, NG, NL, ND, KP, KL, SX, SM}

nA  == <<".", "a">>
nB  == <<".", "b">>
nD  == <<".", "d.json">>
nX  == <<"X">>
nH  == <<"H">>
nG  == <<"G">>
nK  == <<"K">>
nFs == <<"fs">>
nV  == <<"V">>
nW  == <<".", "w">>
nDep == <<"dep">>
nPkgLib == <<"pkg", "lib">>
nPkgNo  == <<"pkg", "nope">>
nRealX  == <<"real", "x">>
nRealY  == <<"real", "y">>
nLib == <<"lib", "a">>
nAltX == <<"alt", "x">>

AllNames == {nA, nB, nD, nX, nH, nG, nK, nFs, nV, nW, nDep, nPkgLib, nPkgNo,
             nRealX, nRealY, nLib, nAltX}

CoreNames == {nFs}

\* file name -> its extension (path.extname) and the name without it
ExtName(seg) ==
    CASE seg \in {"t.js", "a.js", "b.js", "h.js", "h.native.js", "h.ios.js",
                  "X.js", "index.js", "lib.js", "x.js"} -> ".js"
      [] seg \in {"d.json", "package.json"} -> ".json"
      [] OTHER -> ""

WithJs(seg) ==
    CASE seg = "a" -> "a.js"
      [] seg = "b" -> "b.js"
      [] seg = "t" -> "t.js"
      [] seg = "lib" -> "lib.js"
      [] seg = "x" -> "x.js"
      [] OTHER -> seg

Extensions == <<".js">>

\* the haste index: map[name][platform] = {TYPE, PATH}; mocks[name] = path
GENERIC == "g"
NATIVE_PLATFORM == "native"
H_MODULE == "MODULE"
H_PACKAGE == "PACKAGE"

HasteMapOf(name) ==
    CASE name = nH -> [g |-> [type |-> H_MODULE, path |-> PH],
                       native |-> [type |-> H_MODULE, path |-> PHN],
                       ios |-> [type |-> H_MODULE, path |-> PHI]]
      [] name = nG -> [g |-> [type |-> H_MODULE, path |-> PH],
                       ios |-> [type |-> H_PACKAGE, path |-> KP]]
      [] name = nK -> [g |-> [type |-> H_PACKAGE, path |-> KP],
                       native |-> [type |-> H_MODULE, path |-> PHN]]
      [] name = <<"pkg">> -> [g |-> [type |-> H_PACKAGE, path |-> KP]]
      [] OTHER -> EmptyFn

HasteMocks == [n \in {nX} |-> MX]

\* moduleNameMapper, in insertion order: the regex ^<prefix>/(.*)$ and the
\* replacement <repl>/$1
ModuleNameMapper ==
    << [prefix |-> "real", repl |-> "nostub"],
       [prefix |-> "real", repl |-> "stub"],
       [prefix |-> "alt", repl |-> "stub"] >>

UnmockedModulePathPatterns == { <<"", "p", "node_modules", "lib">> }

-----------------------------------------------------------------------------
(* path *)

Dirname(p) == IF Len(p) <= 1 THEN p ELSE Front(p)

Basename(p) == Last(p)

IsRelativeName(n) == Len(n) > 0 /\ n[1] \in {".", ".."}
IsAbsoluteName(n) == Len(n) > 0 /\ n[1] = ""

RECURSIVE NormalizeSegs(_, _)
NormalizeSegs(done, rest) ==
    IF rest = <<>> THEN done
    ELSE IF rest[1] \in {".", ""} THEN NormalizeSegs(done, Tail(rest))
    ELSE IF rest[1] = ".." THEN
        NormalizeSegs(IF Len(done) > 1 THEN Front(done) ELSE done, Tail(rest))
    ELSE NormalizeSegs(Append(done, rest[1]), Tail(rest))

\* path.normalize(dir + '/' + name)
JoinNormalize(dir, name) == NormalizeSegs(dir, name)

\* s.includes(NODE_MODULES): "/node_modules/" occurs in the path
IncludesNodeModules(p) ==
    \E i \in 2..(Len(p) - 1) : p[i] = "node_modules"

\* an un-anchored regex of path segments matches when the segments occur in
\* the path
RegexTest(pattern, p) ==
    \E i \in 0..(Len(p) - Len(pattern)) :
        SubSeq(p, i + 1, i + Len(pattern)) = pattern


-----------------------------------------------------------------------------
(* The resolver.  `s` is the state: a record with one field per variable. *)

NoErr == "ok"
MODULE_NOT_FOUND == "MODULE_NOT_FOUND"
TypeError == "TypeError"
BodyError == "Error"
MetadataError == "Failed to get mock metadata"

\* resolve's LOAD_AS_FILE and LOAD_AS_DIRECTORY on the fixture's files
LoadAsFile(x) ==
    IF x \in Files THEN x
    ELSE IF Len(x) > 0 /\ Append(Front(x), WithJs(Last(x))) \in Files
         THEN Append(Front(x), WithJs(Last(x)))
    ELSE None

LoadAsDirectory(x) ==
    IF Append(x, "index.js") \in Files THEN Append(x, "index.js") ELSE None

LoadPath(x) ==
    IF LoadAsFile(x) # None THEN LoadAsFile(x) ELSE LoadAsDirectory(x)

RECURSIVE LoadNodeModules(_, _)
LoadNodeModules(name, dir) ==
    LET here == LoadPath(dir \o <<"node_modules">> \o name)
    IN  IF Last(dir) # "node_modules" /\ here # None THEN here
        ELSE IF Len(dir) <= 1 THEN None
        ELSE LoadNodeModules(name, Front(dir))

\* Resolver.findNodeModule: resolve.sync, null when it throws
FindNodeModule(name, basedir) ==
    IF name \in CoreNames THEN name
    ELSE IF IsAbsoluteName(name) THEN LoadPath(NormalizeSegs(<<"">>, name))
    ELSE IF IsRelativeName(name) THEN LoadPath(JoinNormalize(basedir, name))
    ELSE LoadNodeModules(name, basedir)

\* the host's require.resolve of an absolute path; None when it throws
RequireResolve(x) == LoadPath(x)

\* Resolver.isCoreModule (hasCoreModules is true, Runtime.createResolver)
IsCoreModuleNever(name) == FALSE
IsCoreModule(name) == name \in CoreNames

\* Resolver.getModule(name, type)
GetModuleOfType(s, name, type) ==
    LET map == HasteMapOf(name) IN
    IF map = EmptyFn THEN None
    ELSE
      LET platform == s.defaultPlatform
          first == IF platform # "" /\ Has(map, platform)
                   THEN {map[platform]} ELSE {}
          module ==
            IF first = {} /\ Has(map, NATIVE_PLATFORM) /\ s.supportsNativePlatform
            THEN {map[NATIVE_PLATFORM]}
            ELSE IF first = {}
                 THEN (IF Has(map, GENERIC) THEN {map[GENERIC]} ELSE {})
            ELSE first
      IN  IF \E m \in module : m.type = type
          THEN (CHOOSE m \in module : TRUE).path
          ELSE None

GetModule(s, name) == GetModuleOfType(s, name, H_MODULE)

\* Resolver.getPackage
GetPackage(s, name) == GetModuleOfType(s, name, H_PACKAGE)

MapperMatches(entry, name) == Len(name) >= 2 /\ name[1] = entry.prefix
MapperReplace(entry, name) == <<entry.repl>> \o Tail(name)

\* Resolver._resolveStubModuleName: the loop returns at the first entry whose
\* regex matches
RECURSIVE StubFrom(_, _, _, _)
RECURSIVE StubFromFirstResolving(_, _, _, _)
StubMapped(moduleName, module, from) ==
    IF module # None THEN module
    ELSE FindNodeModule(moduleName, Dirname(from))

\* a loop that goes on to the next entry when a matching entry does not
\* resolve
StubFromFirstResolving(s, i, from, name) ==
    IF i > Len(ModuleNameMapper) THEN None
    ELSE IF /\ MapperMatches(ModuleNameMapper[i], name)
            /\ StubMapped(MapperReplace(ModuleNameMapper[i], name),
                          GetModule(s, MapperReplace(ModuleNameMapper[i], name)),
                          from) # None
    THEN StubMapped(MapperReplace(ModuleNameMapper[i], name),
                    GetModule(s, MapperReplace(ModuleNameMapper[i], name)),
                    from)
    ELSE StubFromFirstResolving(s, i + 1, from, name)

StubFrom(s, i, from, name) ==
    IF i > Len(ModuleNameMapper) THEN None
    ELSE IF MapperMatches(ModuleNameMapper[i], name)
    THEN StubMapped(MapperReplace(ModuleNameMapper[i], name),
                    GetModule(s, MapperReplace(ModuleNameMapper[i], name)),
                    from)
    ELSE StubFrom(s, i + 1, from, name)

ResolveStubModuleName(s, from, name) == StubFrom(s, 1, from, name)

\* Resolver.getMockModule
GetMockModuleOfStub(s, moduleName, module) ==
    IF moduleName = None THEN None
    ELSE IF module # None THEN module ELSE moduleName

GetMockModuleStub(s, moduleName) ==
    GetMockModuleOfStub(s, moduleName,
        IF moduleName = None THEN None ELSE GetModule(s, moduleName))

GetMockModule(s, from, name) ==
    IF Has(HasteMocks, name) THEN HasteMocks[name]
    ELSE GetMockModuleStub(s, ResolveStubModuleName(s, from, name))

\* the message of the error resolveModule throws: module name and
\* path.relative(dirname, from) || '.'
NotFoundMessage(from, moduleName) ==
    LET relativePath == SubSeq(from, Len(Dirname(from)) + 1, Len(from))
    IN  <<"Cannot find module", moduleName, "from",
          IF relativePath = <<>> THEN <<".">> ELSE relativePath>>

\* resolveModule throws: the code and the message of the error; `again`: it
\* threw for the same caller and name before
NoteNotFound(s, from, moduleName, message) ==
    [s EXCEPT
       !.evs = @ \cup {[e |-> "resolveModule throws", from |-> from,
                        name |-> moduleName, code |-> MODULE_NOT_FOUND,
                        message |-> message,
                        again |-> <<from, moduleName>> \in s.hist.notFound]},
       !.hist = [@ EXCEPT !.notFound = @ \cup {<<from, moduleName>>}]]

\* resolveModule is called
NoteResolve(s, from, moduleName) ==
    [s EXCEPT !.evs = @ \cup {[e |-> "resolveModule called", from |-> from,
                               name |-> moduleName]}]

\* Resolver.resolveModule: [s, v, err]
\* the steps of resolveModule after the cache: haste module, node module
\* resolution, module in a haste package; the hit is cached
\* null instead of the error when nothing is found
ResolveModuleFoundOrNull(s, from, moduleName, path) ==
    IF path # None
    THEN [s |-> [s EXCEPT !.moduleNameCache =
                             Put(@, <<Dirname(from), moduleName>>, path)],
          v |-> path, err |-> NoErr]
    ELSE [s |-> s, v |-> None, err |-> NoErr]

ResolveModuleFound(s, from, moduleName, path) ==
    IF path # None
    THEN [s |-> [s EXCEPT !.moduleNameCache =
                             Put(@, <<Dirname(from), moduleName>>, path)],
          v |-> path, err |-> NoErr]
    ELSE [s |-> NoteNotFound(s, from, moduleName,
                             NotFoundMessage(from, moduleName)),
          v |-> None, err |-> MODULE_NOT_FOUND]

ResolveInPackage(pkg, moduleName) ==
    IF pkg = None THEN None
    ELSE RequireResolve(Dirname(pkg) \o Tail(moduleName))

ResolveOrPackage(s, node, moduleName) ==
    IF node # None THEN node
    ELSE ResolveInPackage(GetPackage(s, <<moduleName[1]>>), moduleName)

\* node module resolution first, the haste module second
ResolveNodeFirst(s, haste, dirname, moduleName, skipNodeResolution) ==
    IF ~skipNodeResolution /\ FindNodeModule(moduleName, dirname) # None
    THEN FindNodeModule(moduleName, dirname)
    ELSE IF haste # None THEN haste
    ELSE ResolveInPackage(GetPackage(s, <<moduleName[1]>>), moduleName)

ResolveOrNode(s, haste, dirname, moduleName, skipNodeResolution) ==
    IF haste # None THEN haste
    ELSE ResolveOrPackage(s,
            IF skipNodeResolution THEN None
            ELSE FindNodeModule(moduleName, dirname),
            moduleName)

\* resolveModule from the lookup in the name cache on
ResolveModuleLookup(s, from, moduleName, skipNodeResolution) ==
    IF Has(s.moduleNameCache, <<Dirname(from), moduleName>>)
    THEN [s |-> s, v |-> s.moduleNameCache[<<Dirname(from), moduleName>>],
          err |-> NoErr]
    ELSE ResolveModuleFound(s, from, moduleName,
            ResolveOrNode(s, GetModule(s, moduleName), Dirname(from),
                          moduleName, skipNodeResolution))

ResolveModule(s, from, moduleName, skipNodeResolution) ==
    ResolveModuleLookup(NoteResolve(s, from, moduleName), from, moduleName,
                        skipNodeResolution)

-----------------------------------------------------------------------------
(* Values, module records, frames *)

NoName == <<>>              \* moduleName absent: ''

\* Values are records [k, n, p]: a kind, a reference (0 for values that are
\* not allocated by the runtime) and the path or name they belong to.
Undefined == [k |-> "undefined", n |-> 0, p |-> None]
Truthy(v) == v.k # "undefined"

NewExports(n, path) == [k |-> "exports", n |-> n, p |-> path]
CoreExports(name) == [k |-> "core", n |-> 0, p |-> name]
JestObject(n, from) == [k |-> "jest", n |-> n, p |-> from]

\* moduleMocker.getMetadata
EmptyMetadata == <<"metadata", [k |-> "exports", n |-> 0, p |-> None]>>
GetMetadata(v) == <<"metadata", v>>

NoCall == [op |-> "none", from |-> None, name |-> NoName]

NoFrame == [k |-> "none", call |-> NoCall, path |-> None, id |-> None,
            rec |-> 0, internal |-> FALSE, lastPath |-> None, origMM |-> None,
            origMock |-> EmptyFn, origModule |-> EmptyFn, tables |-> <<0, 0>>]

IsExec(f) == f.k = "exec"

\* the state as a record, and what a call in progress carries with it
Cur ==
    [defaultPlatform |-> defaultPlatform,
     supportsNativePlatform |-> supportsNativePlatform,
     moduleNameCache |-> moduleNameCache,
     normalizedIDCache |-> normalizedIDCache,
     moduleRegistry |-> moduleRegistry,
     mockRegistry |-> mockRegistry,
     explicitShouldMock |-> explicitShouldMock,
     mockFactories |-> mockFactories,
     virtualMocks |-> virtualMocks,
     shouldAutoMock |-> shouldAutoMock,
     shouldMockModuleCache |-> shouldMockModuleCache,
     unmockTransitiveCache |-> unmockTransitiveCache,
     transitiveShouldMock |-> transitiveShouldMock,
     mockMetaDataCache |-> mockMetaDataCache,
     currentlyExecutingModulePath |-> currentlyExecutingModulePath,
     isCurrentlyExecutingManualMock |-> isCurrentlyExecutingManualMock,
     envGlobal |-> envGlobal,
     modules |-> modules,
     nextId |-> nextId,
     stack |-> stack,
     hist |-> hist,
     \* of the call in progress
     call |-> NoCall,       \* the call whose value `ret` is
     ret |-> Undefined,     \* the value being returned
     err |-> NoErr,         \* the error being thrown
     entered |-> FALSE,     \* a module body was entered: the call is suspended
     metadataOk |-> TRUE,   \* whether getMetadata gives a non-null result
     evs |-> {}]            \* what happened in this step

Returned(s) == s.err = NoErr /\ ~s.entered

Return(s, call, v) == [s EXCEPT !.call = call, !.ret = v]
Throw(s, call, e) == [s EXCEPT !.call = call, !.err = e, !.ret = Undefined]
Push(s, f) == [s EXCEPT !.stack = Append(@, f)]
Note(s, ev) == [s EXCEPT !.evs = @ \cup {ev}]

-----------------------------------------------------------------------------
(* Runtime: ids and the mock decision *)

\* Runtime._resolveModule
RtResolveModule(s, from, to) ==
    IF to # NoName THEN ResolveModule(s, from, to, FALSE)
    ELSE [s |-> s, v |-> from, err |-> NoErr]

\* Runtime._getVirtualMockPath
GetVirtualMockPath(from, moduleName) ==
    IF ~IsRelativeName(moduleName) /\ ~IsAbsoluteName(moduleName)
    THEN moduleName
    ELSE JoinNormalize(Dirname(from), moduleName)

ModuleID(type, absolutePath, mockPath) ==
    [type |-> type, abs |-> absolutePath, mock |-> mockPath]

\* Runtime._normalizeID: [s, v, err]
NormalizeIDSet(s, key, id) ==
    [s |-> [s EXCEPT !.normalizedIDCache = Put(@, key, id),
                     !.hist = [@ EXCEPT !.own = @ \cup {key}]],
     v |-> id, err |-> NoErr]

NormalizeIDResolved(res, key) ==
    IF res.err # NoErr THEN [s |-> res.s, v |-> None, err |-> res.err]
    ELSE NormalizeIDSet(res.s, key, ModuleID("user", res.v, None))

NormalizeIDUser(s, from, moduleName, moduleResource, mockResource) ==
    IF moduleResource = None /\ mockResource = None
    THEN (IF /\ moduleName # NoName
             /\ GetVirtualMockPath(from, moduleName) \in s.virtualMocks
          THEN NormalizeIDSet(s, <<from, moduleName>>,
                  ModuleID("user", GetVirtualMockPath(from, moduleName), None))
          ELSE NormalizeIDResolved(RtResolveModule(s, from, moduleName),
                                   <<from, moduleName>>))
    ELSE NormalizeIDSet(s, <<from, moduleName>>,
                        ModuleID("user", moduleResource, mockResource))

NormalizeID(s, from, moduleName) ==
    IF Has(s.normalizedIDCache, <<from, moduleName>>)
    THEN [s |-> s, v |-> s.normalizedIDCache[<<from, moduleName>>],
          err |-> NoErr]
    ELSE IF IsCoreModule(moduleName)
    THEN NormalizeIDSet(s, <<from, moduleName>>,
                        ModuleID("node", moduleName, None))
    ELSE NormalizeIDUser(s, from, moduleName, GetModule(s, moduleName),
                         GetMockModule(s, from, moduleName))

UnmockListTest(p) == \E pat \in UnmockedModulePathPatterns : RegexTest(pat, p)

\* Runtime._shouldMock: [s, v, err]
ShouldMockDecided(s, b) == [s |-> s, v |-> b, err |-> NoErr]

ShouldMockCache(s, moduleID, b) ==
    [s |-> [s EXCEPT !.shouldMockModuleCache = Put(@, moduleID, b)],
     v |-> b, err |-> NoErr]

\* the transitive-unmock branch of _shouldMock is taken for (from, moduleID)
NoteTransitive(s, from, moduleID) ==
    [s EXCEPT !.evs = @ \cup {[e |-> "transitively unmocked", from |-> from,
                               id |-> moduleID]}]

\* the transitive-unmock branch memoizes false by module id instead
ShouldMockTransitiveMemoized(cur, from, moduleID, modulePath) ==
    IF cur.err # NoErr THEN [s |-> cur.s, v |-> FALSE, err |-> cur.err]
    ELSE IF \/ cur.v \in cur.s.transitiveShouldMock
            \/ /\ IncludesNodeModules(from)
               /\ IncludesNodeModules(modulePath)
               /\ \/ UnmockListTest(from)
                  \/ /\ Has(cur.s.explicitShouldMock, cur.v)
                     /\ ~cur.s.explicitShouldMock[cur.v]
    THEN ShouldMockCache(NoteTransitive(cur.s, from, moduleID), moduleID, FALSE)
    ELSE ShouldMockCache(cur.s, moduleID, TRUE)

\* _shouldMock from `const currentModuleID = this._normalizeID(from)` on
ShouldMockTransitive(cur, from, moduleID, modulePath) ==
    IF cur.err # NoErr THEN [s |-> cur.s, v |-> FALSE, err |-> cur.err]
    ELSE IF \/ cur.v \in cur.s.transitiveShouldMock
            \/ /\ IncludesNodeModules(from)
               /\ IncludesNodeModules(modulePath)
               /\ \/ UnmockListTest(from)
                  \/ /\ Has(cur.s.explicitShouldMock, cur.v)
                     /\ ~cur.s.explicitShouldMock[cur.v]
    THEN ShouldMockDecided(
            NoteTransitive(
               [cur.s EXCEPT
                  !.transitiveShouldMock = @ \cup {moduleID},
                  !.unmockTransitiveCache = @ \cup {<<from, moduleID>>}],
               from, moduleID),
            FALSE)
    ELSE ShouldMockCache(cur.s, moduleID, TRUE)

\* _shouldMock from the try/catch around _resolveModule on
ShouldMockResolved(res, from, moduleID, manualMock) ==
    IF res.err # NoErr
    THEN (IF manualMock # None THEN ShouldMockCache(res.s, moduleID, TRUE)
          ELSE [s |-> res.s, v |-> FALSE, err |-> res.err])
    ELSE IF UnmockListTest(res.v) THEN ShouldMockCache(res.s, moduleID, FALSE)
    ELSE ShouldMockTransitive(NormalizeID(res.s, from, NoName), from,
                              moduleID, res.v)

\* _shouldMock from `moduleID in explicitShouldMock` on
ShouldMockNormalized(nid, from, moduleName) ==
    IF nid.err # NoErr THEN [s |-> nid.s, v |-> FALSE, err |-> nid.err]
    ELSE IF Has(nid.s.explicitShouldMock, nid.v)
    THEN ShouldMockDecided(nid.s, nid.s.explicitShouldMock[nid.v])
    ELSE IF \/ ~nid.s.shouldAutoMock
            \/ IsCoreModule(moduleName)
            \/ <<from, nid.v>> \in nid.s.unmockTransitiveCache
    THEN ShouldMockDecided(nid.s, FALSE)
    ELSE IF Has(nid.s.shouldMockModuleCache, nid.v)
    THEN ShouldMockDecided(nid.s, nid.s.shouldMockModuleCache[nid.v])
    ELSE ShouldMockResolved(RtResolveModule(nid.s, from, moduleName), from,
                            nid.v, GetMockModule(nid.s, from, moduleName))

\* _shouldMock without the look at the virtual mocks
ShouldMockNoVirtual(s, from, moduleName) ==
    ShouldMockNormalized(NormalizeID(s, from, moduleName), from, moduleName)

ShouldMock(s, from, moduleName) ==
    IF GetVirtualMockPath(from, moduleName) \in s.virtualMocks
    THEN ShouldMockDecided(s, TRUE)
    ELSE ShouldMockNormalized(NormalizeID(s, from, moduleName), from, moduleName)


-----------------------------------------------------------------------------
(* History kept for the properties.  It records what was observed; it is   *)
(* never read by the program.                                              *)

\* requireModule returned v: the exports of the record found under path in
\* the module registry table t.  `again` tells that an earlier call was
\* answered from the same table for the same path, and no module.exports
\* assignment to that record happened since.
NoteRequireModuleReturn(s, from, name, path, v) ==
    LET key == <<s.moduleRegistry.t, path>>
    IN  [s EXCEPT
           !.evs = @ \cup {[e |-> "requireModule returns", from |-> from,
                            name |-> name, path |-> path, key |-> key, v |-> v,
                            again |-> Has(s.hist.firstByPath, key)]},
           !.hist = [@ EXCEPT
              !.firstByPath = IF Has(@, key) THEN @ ELSE Put(@, key, v)]]

\* requireModule resolved (from, name) to path.  `present`: the registry has
\* a record for it; `first`: no requireModule resolved to this path since
\* the last resetModuleRegistry; `firstInTable`: none was answered from the
\* table now in place; `ranBefore`: the body of path was executed earlier.
NoteRequireModuleCall(s, from, name, path, present, hasBody) ==
    LET key == <<s.moduleRegistry.t, path>>
    IN  [s EXCEPT
           !.evs = @ \cup {[e |-> "requireModule resolves", from |-> from,
                            name |-> name, path |-> path,
                            present |-> present, hasBody |-> hasBody,
                            env |-> s.envGlobal,
                            first |-> path \notin s.hist.required,
                            firstInTable |-> key \notin s.hist.requiredIn,
                            ranBefore |-> path \in s.hist.ran]},
           !.hist = [@ EXCEPT !.required = @ \cup {path},
                              !.requiredIn = @ \cup {key}]]

\* the body of path is entered while the module registry table t is in place;
\* `reentered`: the same file is already executing, entered under the same
\* tables
NoteExec(s, path, reentered) ==
    [s EXCEPT !.evs = @ \cup {[e |-> "body entered", path |-> path,
                               reentered |-> reentered]},
              !.hist = [@ EXCEPT !.ran = @ \cup {path}]]

\* a mock for id is created: by its factory, by its manual mock's body or
\* by automock generation; `again`: one was created for this id before, in
\* the mock registry table now in place
NoteMockCreated(s, id, how) ==
    [s EXCEPT
       !.evs = @ \cup {[e |-> "mock created", id |-> id, how |-> how,
                        again |-> \E c \in s.hist.created :
                                    c.t = s.mockRegistry.t /\ c.id = id]},
       !.hist = [@ EXCEPT !.created =
                    @ \cup {[t |-> s.mockRegistry.t, id |-> id, how |-> how]}]]

\* requireMock(from, name) returned v
NoteRequireMockReturn(s, from, name, id, v) ==
    LET key == <<s.mockRegistry.t, from, name>>
    IN  [s EXCEPT
           !.evs = @ \cup {[e |-> "requireMock returns", from |-> from,
                            name |-> name, id |-> id, v |-> v,
                            first |-> IF Has(s.hist.mockByCall, key)
                                      THEN s.hist.mockByCall[key] ELSE v]},
           !.hist = [@ EXCEPT
              !.mockByCall = IF Has(@, key) THEN @ ELSE Put(@, key, v)]]

\* _generateMock, having required the module under the empty registries it
\* put in place, returns: the registries its frame f saved, the registries
\* in place now, and the module registry the evaluation left (`isolated`);
\* `resetInside`: that one is not the table _generateMock had put in place
NoteGenerateMockReturn(s, f, isolated) ==
    [s EXCEPT !.evs = @ \cup {[e |-> "_generateMock returns", path |-> f.path,
                               mockBefore |-> f.origMock,
                               moduleBefore |-> f.origModule,
                               mockAfter |-> s.mockRegistry,
                               moduleAfter |-> s.moduleRegistry,
                               isolated |-> isolated,
                               resetInside |-> isolated.t # f.tables[1]]}]

\* mock (what = "mock") or unmock, dontMock, deepUnmock (what = "unmock") was
\* called for name and did not throw: the most recent one is kept
NoteExplicit(s, name, what) ==
    IF s.err # NoErr THEN s
    ELSE [s EXCEPT !.hist = [@ EXCEPT !.explicit = Put(@, name, what)]]

\* mock(name, factory, {virtual: true}) was called from `from` and did not
\* throw
NoteVirtual(s, from, name, virtual) ==
    IF s.err # NoErr \/ ~virtual THEN s
    ELSE [s EXCEPT !.hist = [@ EXCEPT !.virtual = @ \cup {<<from, name>>}]]

\* deepUnmock(name) was called from `from` and did not throw: the file the
\* name resolves to starts a chain
NoteDeepUnmock(s, from, name) ==
    IF s.err # NoErr \/ ResolveModule(s, from, name, FALSE).err # NoErr THEN s
    ELSE [s EXCEPT !.hist = [@ EXCEPT !.chain =
                      @ \cup {ResolveModule(s, from, name, FALSE).v}]]

\* the body of `from` calls require(name): if `from` is on a chain, so is the
\* file the name resolves to
NoteChain(s, from, name) ==
    IF from \notin s.hist.chain \/ ResolveModule(s, from, name, FALSE).err # NoErr
    THEN s
    ELSE [s EXCEPT !.hist = [@ EXCEPT !.chain =
                      @ \cup {ResolveModule(s, from, name, FALSE).v}]]

\* _generateMock is about to evaluate modulePath for its metadata; `again`:
\* it did so before in this runtime
NoteEvaluate(s, modulePath) ==
    [s EXCEPT !.evs = @ \cup {[e |-> "evaluated for metadata",
                               path |-> modulePath,
                               again |-> modulePath \in s.hist.meta]},
              !.hist = [@ EXCEPT !.meta = @ \cup {modulePath}]]

\* requireMock(from, name) is called: a factory supplied for (from, name)
\* has had its next requireMock
NoteRequireMockCall(s, from, name) ==
    [s EXCEPT !.hist = [@ EXCEPT
        !.supplied = [k \in DOMAIN @ \ {<<from, name>>} |-> @[k]]]]

\* setMock(name, value) or mock(name, factory) was called from `from` and
\* did not throw: the factory is kept until the next requireMock(from, name)
NoteSupplied(s, from, name, factory) ==
    IF s.err # NoErr THEN s
    ELSE [s EXCEPT !.hist = [@ EXCEPT
                      !.supplied = Put(@, <<from, name>>, factory)]]

NoteReset(s) ==
    [s EXCEPT !.hist = [@ EXCEPT !.firstByCall = EmptyFn, !.required = {}]]

\* module.exports of record rec is assigned
NoteAssigned(s, rec) ==
    [s EXCEPT !.hist = [@ EXCEPT
        !.firstByPath =
            [k \in {x \in DOMAIN @ :
                      ~(/\ x[1] = s.moduleRegistry.t
                        /\ Has(s.moduleRegistry.m, x[2])
                        /\ s.moduleRegistry.m[x[2]] = rec)} |-> @[k]]]]

\* a call of requireModule(from, name) made by the harness or by a module
\* body returned v: the first value since the last resetModuleRegistry is
\* kept
NoteCallReturn(s) ==
    LET key == <<s.call.from, s.call.name>>
    IN  IF Returned(s) /\ s.call.op = "requireModule"
           /\ ~Has(s.hist.firstByCall, key)
        THEN [s.hist EXCEPT !.firstByCall = Put(@, key, s.ret)]
        ELSE s.hist

-----------------------------------------------------------------------------
(* Runtime: the require entry points *)

\* new tables that keep the entries of the old ones
NewRegistriesKeeping(s) ==
    [s EXCEPT !.mockRegistry = [@ EXCEPT !.t = s.nextId],
              !.moduleRegistry = [@ EXCEPT !.t = s.nextId + 1],
              !.nextId = @ + 2]

\* Object.create(null) for both registries (resetModuleRegistry, _generateMock)
NewRegistries(s) ==
    [s EXCEPT !.mockRegistry = [t |-> s.nextId, m |-> EmptyFn],
              !.moduleRegistry = [t |-> s.nextId + 1, m |-> EmptyFn],
              !.nextId = @ + 2]

\* a reset that forgets the mock factories as well
ResetModuleRegistryAndFactories(s) ==
    [NoteReset(NewRegistries(s)) EXCEPT !.mockFactories = EmptyFn]

\* Runtime.resetModuleRegistry
ResetModuleRegistry(s) == NoteReset(NewRegistries(s))

\* Runtime._execModule past its first test, up to the call of the module's
\* body
ExecModuleRun(s, rec, internal) ==
    LET filename == s.modules[rec].filename
        f == [NoFrame EXCEPT
                !.k = "exec", !.path = filename, !.rec = rec,
                !.internal = internal,
                !.tables = <<s.moduleRegistry.t, s.mockRegistry.t>>,
                !.lastPath = s.currentlyExecutingModulePath,
                !.origMM = s.isCurrentlyExecutingManualMock]
    IN  NoteExec([Push(s, f) EXCEPT
                    !.currentlyExecutingModulePath = filename,
                    !.isCurrentlyExecutingManualMock = filename,
                    !.entered = TRUE], filename,
                 \E i \in 1..Len(s.stack) :
                     /\ IsExec(s.stack[i])
                     /\ s.stack[i].path = filename
                     /\ s.stack[i].tables = f.tables)

\* Runtime._execModule, up to the call of the module's body.  A torn-down
\* environment makes it return at once.
ExecModule(s, rec, internal) ==
    IF ~s.envGlobal THEN s ELSE ExecModuleRun(s, rec, internal)

\* Runtime._execModule, after the body returned: the exec frame f is popped
ExecModuleReturn(s, f) ==
    [s EXCEPT !.isCurrentlyExecutingManualMock = f.origMM,
              !.currentlyExecutingModulePath = f.lastPath]

\* requireModule's `this._moduleRegistry[modulePath]`
RegisteredNever(s, modulePath) == FALSE
Registered(s, modulePath) == Has(s.moduleRegistry.m, modulePath)

\* Runtime.requireModule's last line
RequireModuleResult(s, call, modulePath) ==
    IF Has(s.moduleRegistry.m, modulePath)
    THEN LET v == s.modules[s.moduleRegistry.m[modulePath]].exports
         IN  Return(NoteRequireModuleReturn(s, call.from, call.name,
                                            modulePath, v), call, v)
    ELSE Throw(s, call, TypeError)

\* Runtime.requireModule
RequireModuleCall(from, moduleName) ==
    [op |-> "requireModule", from |-> from, name |-> moduleName]

HasBody(modulePath) == ExtName(Last(modulePath)) \notin {".json", ".node"}

SetExports(s, rec, v) == [s EXCEPT !.modules = [@ EXCEPT ![rec].exports = v]]

\* requireModule, the new record rec is registered: load it by its extension
RequireModuleLoad(s, call, modulePath, rec, internal) ==
    IF ExtName(Last(modulePath)) = ".json"
    THEN (IF ~s.envGlobal THEN Throw(s, call, TypeError)
          ELSE RequireModuleResult(
                  SetExports(s, rec, [k |-> "json", n |-> rec, p |-> modulePath]),
                  call, modulePath))
    ELSE IF ExtName(Last(modulePath)) = ".node"
    THEN RequireModuleResult(
            SetExports(s, rec, [k |-> "addon", n |-> 0, p |-> modulePath]),
            call, modulePath)
    ELSE IF ~s.envGlobal
    THEN RequireModuleResult(ExecModule(s, rec, internal), call, modulePath)
    ELSE ExecModule(Push(s, [NoFrame EXCEPT !.k = "requireModule",
                                            !.call = call,
                                            !.path = modulePath]),
                    rec, internal)

\* this._moduleRegistry[modulePath] = localModule
RequireModuleRegister(s, modulePath) ==
    [s EXCEPT
       !.nextId = @ + 1,
       !.modules = Put(@, s.nextId,
                       [filename |-> modulePath,
                        exports |-> NewExports(s.nextId, modulePath)]),
       !.moduleRegistry = [@ EXCEPT !.m = Put(@, modulePath, s.nextId)]]

\* requireModule from `if (!this._moduleRegistry[modulePath])` on
RequireModuleResolved(res, from, moduleName, internal) ==
    IF res.err # NoErr
    THEN Throw(res.s, RequireModuleCall(from, moduleName), res.err)
    ELSE IF Registered(res.s, res.v)
    THEN RequireModuleResult(
            NoteRequireModuleCall(res.s, from, moduleName, res.v, TRUE,
                                  HasBody(res.v)),
            RequireModuleCall(from, moduleName), res.v)
    ELSE RequireModuleLoad(
            NoteRequireModuleCall(RequireModuleRegister(res.s, res.v), from,
                                  moduleName, res.v, FALSE, HasBody(res.v)),
            RequireModuleCall(from, moduleName), res.v, res.s.nextId, internal)

\* the manual mock in place of the module, or _resolveModule
RequireModulePath(s, from, moduleName, internal, moduleID, haste, manualMock) ==
    IF /\ ~internal
       /\ haste = None
       /\ manualMock # None
       /\ manualMock # s.isCurrentlyExecutingManualMock
       /\ ~(Has(s.explicitShouldMock, moduleID)
            /\ ~s.explicitShouldMock[moduleID])
    THEN [s |-> s, v |-> manualMock, err |-> NoErr]
    ELSE RtResolveModule(s, from, moduleName)

RequireModuleNormalized(nid, from, moduleName, internal) ==
    IF nid.err # NoErr
    THEN Throw(nid.s, RequireModuleCall(from, moduleName), nid.err)
    ELSE IF moduleName # NoName /\ IsCoreModule(moduleName)
    THEN Return(nid.s, RequireModuleCall(from, moduleName),
                CoreExports(moduleName))
    ELSE RequireModuleResolved(
            RequireModulePath(
                nid.s, from, moduleName, internal, nid.v,
                IF moduleName # NoName
                THEN GetModule(nid.s, moduleName) ELSE None,
                IF moduleName # NoName
                THEN GetMockModule(nid.s, from, moduleName) ELSE None),
            from, moduleName, internal)

RequireModule(s, from, moduleName, internal) ==
    RequireModuleNormalized(NormalizeID(s, from, moduleName), from, moduleName,
                            internal)

\* Runtime.requireInternalModule
RequireInternalModule(s, from, to) == RequireModule(s, from, to, TRUE)

\* moduleMocker.generateFromMetadata: a new mock each time
GenerateFromMetadata(s, metadata, path) ==
    [s EXCEPT !.nextId = @ + 1,
              !.ret = [k |-> IF metadata = EmptyMetadata
                             THEN "automock of {}" ELSE "automock",
                       n |-> s.nextId, p |-> path]]

\* Runtime._generateMock, from the restoring of the registries on; f is its
\* frame and s.ret the exports requireModule returned
GenerateMockRestored(s, f, moduleExports, metadataOk, isolated) ==
    IF ~metadataOk THEN Throw(s, f.call, MetadataError)
    ELSE [GenerateFromMetadata(
             NoteGenerateMockReturn(
                [s EXCEPT !.mockMetaDataCache =
                             Put(@, f.path, GetMetadata(moduleExports))],
                f, isolated),
             GetMetadata(moduleExports), f.path)
            EXCEPT !.call = f.call]

\* this._mockRegistry = origMockRegistry;
\* this._moduleRegistry = origModuleRegistry
RestoreNothing(s, f) == s
RestoreRegistries(s, f) ==
    [s EXCEPT !.mockRegistry = f.origMock, !.moduleRegistry = f.origModule]

GenerateMockResume(s, f) ==
    GenerateMockRestored(RestoreRegistries(s, f), f, s.ret, s.metadataOk,
                         s.moduleRegistry)

\* Runtime._generateMock
GenerateMockCall(from, moduleName) ==
    [op |-> "_generateMock", from |-> from, name |-> moduleName]

\* _generateMock: the empty registries the module is evaluated under
GenerateMockEvaluate(s, call, modulePath) ==
    NewRegistries(
        Push(NoteEvaluate(s, modulePath),
             [NoFrame EXCEPT !.k = "_generateMock", !.call = call,
                             !.path = modulePath,
                             !.origMock = s.mockRegistry,
                             !.origModule = s.moduleRegistry,
                             !.tables = <<s.nextId + 1, s.nextId>>]))

\* _generateMock: the metadata placeholder and the empty registries
GenerateMockIsolated(s, call, modulePath) ==
    GenerateMockEvaluate(
        [s EXCEPT !.mockMetaDataCache = Put(@, modulePath, EmptyMetadata)],
        call, modulePath)

GenerateMockResolved(res, from, moduleName) ==
    IF res.err # NoErr
    THEN Throw(res.s, GenerateMockCall(from, moduleName), res.err)
    ELSE IF ~Has(res.s.mockMetaDataCache, res.v)
    THEN RequireModule(
            GenerateMockIsolated(res.s, GenerateMockCall(from, moduleName), res.v),
            from, moduleName, FALSE)
    ELSE [GenerateFromMetadata(res.s, res.s.mockMetaDataCache[res.v], res.v)
            EXCEPT !.call = GenerateMockCall(from, moduleName)]

GenerateMock(s, from, moduleName) ==
    GenerateMockResolved(RtResolveModule(s, from, moduleName), from, moduleName)

\* a mock factory is a thunk: one that makes a new object at each call, or
\* one that gives the same value at each call (setMock's () => mock)
InvokeFactory(s, factory) ==
    IF factory.fresh
    THEN [s EXCEPT !.nextId = @ + 1,
                   !.ret = [k |-> "made", n |-> s.nextId, p |-> None]]
    ELSE [s EXCEPT !.ret = factory.v]

SetMockRegistry(s, moduleID, v) ==
    [s EXCEPT !.mockRegistry = [@ EXCEPT !.m = Put(@, moduleID, v)]]

\* Runtime.requireMock, after the manual mock's body returned
RequireMockSet(s, call, moduleID, v) ==
    Return(NoteRequireMockReturn(SetMockRegistry(s, moduleID, v),
                                 call.from, call.name, moduleID, v),
           call, v)

RequireMockManualResume(s, f) ==
    RequireMockSet(s, f.call, f.id, s.modules[f.rec].exports)

\* Runtime.requireMock, after _generateMock returned
RequireMockAutoResume(s, f) == RequireMockSet(s, f.call, f.id, s.ret)

\* Runtime.requireMock
RequireMockCall(from, moduleName) ==
    [op |-> "requireMock", from |-> from, name |-> moduleName]

\* path.join(path.dirname(modulePath), '__mocks__', path.basename(modulePath))
PotentialManualMock(modulePath) ==
    Dirname(modulePath) \o <<"__mocks__", Basename(modulePath)>>

\* this._mockRegistry[moduleID] = this._mockFactories[moduleID]()
RequireMockFromFactory(made, call, moduleID) ==
    RequireMockSet(NoteMockCreated(made, moduleID, "factory"), call, moduleID,
                   made.ret)

\* the record rec of the manual mock is made: execute it
RequireMockManual(s, call, moduleID, rec) ==
    IF ~s.envGlobal
    THEN RequireMockManualResume(
            ExecModule(s, rec, FALSE),
            [NoFrame EXCEPT !.k = "requireMock manual", !.call = call,
                            !.id = moduleID, !.rec = rec])
    ELSE ExecModule(
            Push(s, [NoFrame EXCEPT !.k = "requireMock manual", !.call = call,
                                    !.id = moduleID, !.rec = rec]),
            rec, FALSE)

\* const moduleMock = {exports: {}, filename: modulePath}
RequireMockRecord(s, moduleID, modulePath) ==
    NoteMockCreated(
        [s EXCEPT
           !.nextId = @ + 1,
           !.modules = Put(@, s.nextId,
                           [filename |-> modulePath,
                            exports |-> NewExports(s.nextId, modulePath)])],
        moduleID, "manual")

RequireMockAt(s, from, moduleName, moduleID, modulePath, isManualMock) ==
    IF isManualMock
    THEN RequireMockManual(RequireMockRecord(s, moduleID, modulePath),
                           RequireMockCall(from, moduleName), moduleID, s.nextId)
    ELSE GenerateMock(
            Push(NoteMockCreated(s, moduleID, "automock"),
                 [NoFrame EXCEPT !.k = "requireMock auto",
                                 !.call = RequireMockCall(from, moduleName),
                                 !.id = moduleID]),
            from, moduleName)

RequireMockResolved(res, from, moduleName, moduleID, manualMock) ==
    IF res.err # NoErr
    THEN Throw(res.s, RequireMockCall(from, moduleName), res.err)
    ELSE RequireMockAt(
            res.s, from, moduleName, moduleID,
            IF manualMock = None /\ PotentialManualMock(res.v) \in Files
            THEN PotentialManualMock(res.v) ELSE res.v,
            manualMock # None \/ PotentialManualMock(res.v) \in Files)

RequireMockLookup(s, from, moduleName, moduleID, manualMock) ==
    IF Has(s.mockRegistry.m, moduleID) /\ Truthy(s.mockRegistry.m[moduleID])
    THEN Return(NoteRequireMockReturn(s, from, moduleName, moduleID,
                                      s.mockRegistry.m[moduleID]),
                RequireMockCall(from, moduleName), s.mockRegistry.m[moduleID])
    ELSE IF Has(s.mockFactories, moduleID)
    THEN RequireMockFromFactory(InvokeFactory(s, s.mockFactories[moduleID]),
                                RequireMockCall(from, moduleName), moduleID)
    ELSE RequireMockResolved(
            RtResolveModule(s, from,
                IF manualMock # None THEN manualMock ELSE moduleName),
            from, moduleName, moduleID, manualMock)

RequireMockNormalized(nid, from, moduleName) ==
    IF nid.err # NoErr
    THEN Throw(nid.s, RequireMockCall(from, moduleName), nid.err)
    ELSE RequireMockLookup(nid.s, from, moduleName, nid.v,
                           GetMockModule(nid.s, from, moduleName))

RequireMock(s, from, moduleName) ==
    RequireMockNormalized(
        NormalizeID(NoteRequireMockCall(s, from, moduleName), from, moduleName),
        from, moduleName)

\* Runtime.requireModuleOrMock
RequireModuleOrMockDecided(sm, from, moduleName) ==
    IF sm.err # NoErr
    THEN Throw(sm.s, [op |-> "requireModuleOrMock", from |-> from,
                      name |-> moduleName], sm.err)
    ELSE IF sm.v THEN RequireMock(sm.s, from, moduleName)
    ELSE RequireModule(sm.s, from, moduleName, FALSE)

RequireModuleOrMock(s, from, moduleName) ==
    RequireModuleOrMockDecided(
        ShouldMock(Note(s, [e |-> "_shouldMock called", from |-> from,
                            name |-> moduleName]),
                   from, moduleName),
        from, moduleName)

\* The callers waiting on the stack take the returned value in turn, until
\* it reaches a module body or the harness.
RECURSIVE Deliver(_)
Deliver(s) ==
    IF ~Returned(s) \/ s.stack = <<>> \/ IsExec(Last(s.stack)) THEN s
    ELSE LET f == Last(s.stack)
             popped == [s EXCEPT !.stack = Front(@)]
         IN  Deliver(
               CASE f.k = "requireModule" ->
                        RequireModuleResult(popped, f.call, f.path)
                 [] f.k = "_generateMock" -> GenerateMockResume(popped, f)
                 [] f.k = "requireMock manual" -> RequireMockManualResume(popped, f)
                 [] f.k = "requireMock auto" -> RequireMockAutoResume(popped, f))


-----------------------------------------------------------------------------
(* Steps *)

\* An error goes up the stack to a module body that catches it, or to the
\* harness.  No frame of the runtime has a handler: the frames above the
\* catching body are dropped as they are.
CatchLevels(stk) == {0} \cup {i \in 1..Len(stk) : IsExec(stk[i])}

Outcomes(s) ==
    IF s.err = NoErr THEN {s}
    ELSE {[s EXCEPT !.stack = SubSeq(@, 1, k)] : k \in CatchLevels(s.stack)}

Commit(s, call) ==
    /\ Len(s.stack) <= s.hist.depth
    /\ defaultPlatform' = s.defaultPlatform
    /\ supportsNativePlatform' = s.supportsNativePlatform
    /\ moduleNameCache' = s.moduleNameCache
    /\ normalizedIDCache' = s.normalizedIDCache
    /\ moduleRegistry' = s.moduleRegistry
    /\ mockRegistry' = s.mockRegistry
    /\ explicitShouldMock' = s.explicitShouldMock
    /\ mockFactories' = s.mockFactories
    /\ virtualMocks' = s.virtualMocks
    /\ shouldAutoMock' = s.shouldAutoMock
    /\ shouldMockModuleCache' = s.shouldMockModuleCache
    /\ unmockTransitiveCache' = s.unmockTransitiveCache
    /\ transitiveShouldMock' = s.transitiveShouldMock
    /\ mockMetaDataCache' = s.mockMetaDataCache
    /\ currentlyExecutingModulePath' = s.currentlyExecutingModulePath
    /\ isCurrentlyExecutingManualMock' = s.isCurrentlyExecutingManualMock
    /\ envGlobal' = s.envGlobal
    /\ modules' = s.modules
    /\ nextId' = s.nextId
    /\ stack' = s.stack
    /\ hist' = NoteCallReturn(s)
    /\ last' = [call |-> call,
                st |-> IF s.err # NoErr THEN "throw"
                       ELSE IF s.entered THEN "enter" ELSE "return",
                by |-> IF Returned(s) THEN s.call ELSE NoCall,
                v |-> s.ret, err |-> s.err, evs |-> s.evs]

\* a call made by the harness or by the body on top of the stack
Step(s, call) == \E out \in Outcomes(Deliver(s)) : Commit(out, call)

AtBody == stack # <<>> /\ IsExec(Last(stack))
CanCall == (stack = <<>> \/ AtBody) /\ hist.left > 0

HarnessFroms == {T}
Callers == IF stack = <<>> THEN HarnessFroms ELSE {Last(stack).path}
CallerIsInternal == stack # <<>> /\ Last(stack).internal
\* the jest object of the caller: _execModule makes one for each execution
CallerJest(from) ==
    JestObject(IF stack = <<>> THEN 0 ELSE Last(stack).rec, from)

Called == [Cur EXCEPT !.hist = [@ EXCEPT !.left = @ - 1]]

\* runtime.requireModule(from, name), require.requireActual(name)
DoRequireModule(from, name) ==
    /\ CanCall
    /\ Step(RequireModule(Called, from, name, FALSE),
            [op |-> "requireModule", from |-> from, name |-> name])

\* runtime.requireMock(from, name), require.requireMock(name)
DoRequireMock(from, name) ==
    /\ CanCall
    /\ Step(RequireMock(Called, from, name),
            [op |-> "requireMock", from |-> from, name |-> name])

\* a require that is requireModuleOrMock whatever the options
CreateRequireImplementationOfUser(s, from, name, isInternalModule) ==
    RequireModuleOrMock(NoteChain(s, from, name), from, name)

\* Runtime._createRequireImplementation: the moduleRequire function
CreateRequireImplementation(s, from, name, isInternalModule) ==
    IF isInternalModule
    THEN RequireInternalModule(s, from, name)
    ELSE RequireModuleOrMock(NoteChain(s, from, name), from, name)

\* the module's require(name)
DoRequire(from, name) ==
    /\ CanCall
    /\ Step(CreateRequireImplementation(Called, from, name, CallerIsInternal),
            [op |-> "require", from |-> from, name |-> name])

\* runtime.requireInternalModule(from, name) called by the harness
DoRequireInternalModule(from, name) ==
    /\ stack = <<>>
    /\ hist.left > 0
    /\ Step(RequireInternalModule(Called, from, name),
            [op |-> "requireInternalModule", from |-> from, name |-> name])

\* jest.genMockFromModule(name)
DoGenMockFromModule(from, name) ==
    /\ CanCall
    /\ Step(GenerateMock(Called, from, name),
            [op |-> "genMockFromModule", from |-> from, name |-> name])

\* the module body on top of the stack returns
BodyReturn ==
    /\ AtBody
    /\ \E ok \in BOOLEAN :
         LET f == Last(stack)
             s == [ExecModuleReturn([Cur EXCEPT !.stack = Front(@)], f)
                     EXCEPT !.metadataOk = ok]
         IN  Step(s, [op |-> "return", from |-> f.path, name |-> NoName])

\* the module body on top of the stack throws
BodyThrow ==
    /\ AtBody
    /\ hist.left > 0
    /\ LET f == Last(stack)
           call == [op |-> "throw", from |-> f.path, name |-> NoName]
       IN  Step(Throw([Called EXCEPT !.stack = Front(@)], call, BodyError), call)

\* the module body on top of the stack assigns module.exports
BodyAssignExports ==
    /\ AtBody
    /\ hist.left > 0
    /\ LET f == Last(stack)
           v == [k |-> "assigned", n |-> nextId, p |-> f.path]
           s == [NoteAssigned(Called, f.rec) EXCEPT
                   !.nextId = @ + 1,
                   !.modules = [@ EXCEPT ![f.rec].exports = v]]
       IN  Step(Return(s, NoCall, v),
                [op |-> "module.exports =", from |-> f.path, name |-> NoName])

\* the environment is torn down: _environment.global is removed
TearDown ==
    /\ envGlobal
    /\ Step([Cur EXCEPT !.envGlobal = FALSE],
            [op |-> "teardown", from |-> None, name |-> NoName])


-----------------------------------------------------------------------------
(* The control surface: Runtime._createRuntimeFor(from) *)

\* Runtime.setMock
SetMockNormalized(nid, mockFactory) ==
    IF nid.err # NoErr THEN [nid.s EXCEPT !.err = nid.err]
    ELSE [nid.s EXCEPT
            !.explicitShouldMock = Put(@, nid.v, TRUE),
            !.mockFactories = Put(@, nid.v, mockFactory)]

SetMock(s, from, moduleName, mockFactory, virtual) ==
    SetMockNormalized(
        NormalizeID(
            IF virtual
            THEN [s EXCEPT !.virtualMocks =
                              @ \cup {GetVirtualMockPath(from, moduleName)}]
            ELSE s,
            from, moduleName),
        mockFactory)

\* explicitShouldMock[normalizeID(from, name)] = flag, and with deep (deepUnmock)
\* transitiveShouldMock[id] = false
SetExplicitNormalized(nid, flag, deep) ==
    IF nid.err # NoErr THEN [nid.s EXCEPT !.err = nid.err]
    ELSE [nid.s EXCEPT
            !.explicitShouldMock = Put(@, nid.v, flag),
            !.transitiveShouldMock = IF deep THEN @ \cup {nid.v} ELSE @]

SetExplicit(s, from, moduleName, flag, deep) ==
    SetExplicitNormalized(NormalizeID(s, from, moduleName), flag, deep)

\* what a method of the control surface returns: `runtime` for the ones
\* that end with `return runtime`
FluentNot(s, jest) == s
Fluent(s, jest) == IF s.err = NoErr THEN [s EXCEPT !.ret = jest] ELSE s

\* jest.unmock(name), jest.dontMock(name)
JestUnmock(from, name, op) ==
    /\ CanCall
    /\ Step(Fluent(NoteExplicit(SetExplicit(Called, from, name, FALSE, FALSE),
                                name, "unmock"), CallerJest(from)),
            [op |-> op, from |-> from, name |-> name])

\* jest.deepUnmock(name)
JestDeepUnmock(from, name) ==
    /\ CanCall
    /\ Step(Fluent(NoteDeepUnmock(
                      NoteExplicit(SetExplicit(Called, from, name, FALSE, TRUE),
                                   name, "unmock"),
                      from, name), CallerJest(from)),
            [op |-> "deepUnmock", from |-> from, name |-> name])

\* jest.mock(name), jest.doMock(name): no factory
JestMock(from, name, op) ==
    /\ CanCall
    /\ Step(Fluent(NoteExplicit(SetExplicit(Called, from, name, TRUE, FALSE),
                                name, "mock"), CallerJest(from)),
            [op |-> op, from |-> from, name |-> name])

\* jest.mock(name, factory, options), jest.doMock(name, factory, options)
JestMockFactory(from, name, factory, virtual, op) ==
    /\ CanCall
    /\ Step(Fluent(NoteSupplied(
                      NoteVirtual(
                         NoteExplicit(SetMock(Called, from, name, factory, virtual),
                                      name, "mock"),
                         from, name, virtual),
                      from, name, factory), CallerJest(from)),
            [op |-> op, from |-> from, name |-> name])

\* jest.setMock(name, value)
JestSetMock(from, name, value) ==
    /\ CanCall
    /\ Step(Fluent(NoteSupplied(
                      NoteExplicit(SetMock(Called, from, name,
                                           [fresh |-> FALSE, v |-> value], FALSE),
                                   name, "mock"),
                      from, name, [fresh |-> FALSE, v |-> value]),
                   CallerJest(from)),
            [op |-> "setMock", from |-> from, name |-> name])

\* jest.enableAutomock(), jest.autoMockOn(), jest.disableAutomock(),
\* jest.autoMockOff()
JestAutomock(from, flag, op) ==
    /\ CanCall
    /\ Step(Fluent([Called EXCEPT !.shouldAutoMock = flag], CallerJest(from)),
            [op |-> op, from |-> from, name |-> NoName])

\* jest.resetModuleRegistry()
JestResetModuleRegistry(from) ==
    /\ CanCall
    /\ Step(Fluent(ResetModuleRegistry(Called), CallerJest(from)),
            [op |-> "resetModuleRegistry", from |-> from, name |-> NoName])

\* jest.useFakeTimers(), jest.useRealTimers()
JestUseTimers(from, op) ==
    /\ CanCall
    /\ Step(Fluent(Called, CallerJest(from)),
            [op |-> op, from |-> from, name |-> NoName])

\* what the environment's fakeTimers methods return
TimerResults == {Undefined, [k |-> "timers", n |-> 0, p |-> None]}

\* jest.clearAllTimers(), runAllTicks(), runAllImmediates(), runAllTimers(),
\* runOnlyPendingTimers(): the arrow functions return what fakeTimers returns
JestTimers(from, op) ==
    /\ CanCall
    /\ \E r \in TimerResults :
         Step([Called EXCEPT !.ret = r], [op |-> op, from |-> from, name |-> NoName])

\* jest.addMatchers(matchers): a block body without return
JestAddMatchers(from) ==
    /\ CanCall
    /\ Step(IF envGlobal THEN [Called EXCEPT !.ret = Undefined]
            ELSE [Called EXCEPT !.err = TypeError],
            [op |-> "addMatchers", from |-> from, name |-> NoName])

\* resolver.resolveModule(from, name, {skipNodeResolution}) called directly
ResolveModuleCall(s, res, call) ==
    IF res.err # NoErr THEN Throw(res.s, call, res.err)
    ELSE Return(res.s, call, [k |-> "path", n |-> 0, p |-> res.v])

DoResolveModule(from, name, skipNodeResolution) ==
    /\ stack = <<>>
    /\ hist.left > 0
    /\ Step(ResolveModuleCall(Called,
                              ResolveModule(Called, from, name, skipNodeResolution),
                              [op |-> "resolveModule", from |-> from, name |-> name]),
            [op |-> "resolveModule", from |-> from, name |-> name])

\* resolver.getMockModule(from, name) called directly
DoGetMockModule(from, name) ==
    /\ stack = <<>>
    /\ hist.left > 0
    /\ Step(Return(Called, [op |-> "getMockModule", from |-> from, name |-> name],
                   [k |-> "path", n |-> 0,
                    p |-> GetMockModule(Called, from, name)]),
            [op |-> "getMockModule", from |-> from, name |-> name])

\* runtime.resetModuleRegistry() called by the harness
DoResetModuleRegistry ==
    /\ stack = <<>>
    /\ hist.left > 0
    /\ Step(ResetModuleRegistry(Called),
            [op |-> "Runtime.resetModuleRegistry", from |-> None, name |-> NoName])

-----------------------------------------------------------------------------
(* Initial states: new Resolver(moduleMap, options), new Runtime(config,    *)
(* environment, resolver) with no setup files                               *)

NoLast == [call |-> NoCall, st |-> "return", by |-> NoCall, v |-> Undefined,
           err |-> NoErr, evs |-> {}]

NoHist == [left |-> 0, firstByCall |-> EmptyFn, firstByPath |-> EmptyFn,
           mockByCall |-> EmptyFn, required |-> {}, requiredIn |-> {},
           ran |-> {}, created |-> {}, explicit |-> EmptyFn,
           notFound |-> {}, own |-> {}, instance |-> 1,
           virtual |-> {}, chain |-> {}, depth |-> MaxDepth, meta |-> {},
           supplied |-> EmptyFn]

InitWithDepth(platforms, natives, automocks, calls, depth) ==
    /\ defaultPlatform \in platforms
    /\ supportsNativePlatform \in natives
    /\ moduleNameCache = EmptyFn
    /\ normalizedIDCache = EmptyFn
    /\ mockRegistry = [t |-> 1, m |-> EmptyFn]
    /\ moduleRegistry = [t |-> 2, m |-> EmptyFn]
    /\ explicitShouldMock = EmptyFn
    /\ mockFactories = EmptyFn
    /\ virtualMocks = {}
    /\ shouldAutoMock \in automocks
    /\ shouldMockModuleCache = EmptyFn
    /\ unmockTransitiveCache = {}
    /\ transitiveShouldMock = {}
    /\ mockMetaDataCache = EmptyFn
    /\ currentlyExecutingModulePath = None
    /\ isCurrentlyExecutingManualMock = None
    /\ envGlobal = TRUE
    /\ modules = EmptyFn
    /\ nextId = 3
    /\ stack = <<>>
    /\ last = NoLast
    /\ hist = [NoHist EXCEPT !.left = calls, !.depth = depth]

InitWith(platforms, natives, automocks, calls) ==
    InitWithDepth(platforms, natives, automocks, calls, MaxDepth)

\* new Runtime(config, environment, Runtime.createResolver(config, moduleMap))
\* in the same process, for a configuration with no setup files: every field
\* of the instance and of its resolver is new, normalizedIDCache is the
\* module-level object
NewRuntime(platform, native, automock) ==
    /\ stack = <<>>
    /\ hist.left > 0
    /\ Step([Cur EXCEPT
               !.defaultPlatform = platform,
               !.supportsNativePlatform = native,
               !.moduleNameCache = EmptyFn,
               !.mockRegistry = [t |-> nextId, m |-> EmptyFn],
               !.moduleRegistry = [t |-> nextId + 1, m |-> EmptyFn],
               !.nextId = @ + 2,
               !.explicitShouldMock = EmptyFn,
               !.mockFactories = EmptyFn,
               !.virtualMocks = {},
               !.shouldAutoMock = automock,
               !.shouldMockModuleCache = EmptyFn,
               !.unmockTransitiveCache = {},
               !.transitiveShouldMock = {},
               !.mockMetaDataCache = EmptyFn,
               !.currentlyExecutingModulePath = None,
               !.isCurrentlyExecutingManualMock = None,
               !.envGlobal = TRUE,
               !.hist = [NoHist EXCEPT !.left = hist.left - 1,
                                       !.depth = hist.depth,
                                       !.instance = hist.instance + 1]],
            [op |-> "new Runtime", from |-> None, name |-> NoName])

Init == InitWith({""}, {FALSE}, BOOLEAN, MaxCalls)

\* the names and values the calls of the main specification are made with
Names == {nA, nX, nFs, nV}
Factories == {[fresh |-> TRUE, v |-> Undefined], [fresh |-> FALSE, v |-> Undefined]}
GivenValues == {[k |-> "given", n |-> 0, p |-> None]}

Next ==
    \/ \E from \in Callers, name \in Names \cup {NoName} :
         DoRequireModule(from, name)
    \/ \E from \in Callers, name \in Names : DoRequireMock(from, name)
    \/ \E from \in Callers, name \in Names : DoRequire(from, name)
    \/ \E from \in Callers, name \in Names : DoGenMockFromModule(from, name)
    \/ \E from \in Callers, name \in Names : JestUnmock(from, name, "unmock")
    \/ \E from \in Callers, name \in Names : JestDeepUnmock(from, name)
    \/ \E from \in Callers, name \in Names : JestMock(from, name, "mock")
    \/ \E from \in Callers, name \in Names, f \in Factories, virtual \in BOOLEAN :
         JestMockFactory(from, name, f, virtual, "mock")
    \/ \E from \in Callers, name \in Names, v \in GivenValues :
         JestSetMock(from, name, v)
    \/ \E from \in Callers, flag \in BOOLEAN :
         JestAutomock(from, flag, IF flag THEN "enableAutomock" ELSE "disableAutomock")
    \/ \E from \in Callers : JestResetModuleRegistry(from)
    \/ BodyReturn
    \/ BodyThrow
    \/ BodyAssignExports
    \/ TearDown

Spec == Init /\ [][Next]_vars


-----------------------------------------------------------------------------
(* C1: the module registry as a cache of exports *)

MaxCallsRegistry == 3

InitRegistry == InitWith({""}, {FALSE}, BOOLEAN, MaxCallsRegistry)

NamesRegistry == {nA, nX}

NextRegistry ==
    \/ \E from \in Callers, name \in NamesRegistry : DoRequireModule(from, name)
    \/ \E from \in Callers, name \in NamesRegistry : DoRequireMock(from, name)
    \/ \E from \in Callers, name \in NamesRegistry : DoRequire(from, name)
    \/ \E from \in Callers, name \in NamesRegistry :
         DoGenMockFromModule(from, name)
    \/ \E from \in Callers, name \in NamesRegistry : JestMock(from, name, "mock")
    \/ \E from \in Callers, name \in NamesRegistry :
         JestUnmock(from, name, "unmock")
    \/ \E from \in Callers, name \in NamesRegistry : JestDeepUnmock(from, name)
    \/ \E from \in Callers : JestResetModuleRegistry(from)
    \/ BodyReturn
    \/ BodyThrow
    \/ BodyAssignExports

SpecRegistry == InitRegistry /\ [][NextRegistry]_vars

\* C1 as stated: a call of requireModule(from, name), for a non-core name,
\* made by the harness or by a module body returns the exports object that
\* the first such call since the last resetModuleRegistry returned.
C1_SameExportsPerCall ==
    (last.st = "return" /\ last.by.op = "requireModule"
        /\ ~IsCoreModule(last.by.name))
    => /\ Has(hist.firstByCall, <<last.by.from, last.by.name>>)
       /\ last.v = hist.firstByCall[<<last.by.from, last.by.name>>]

\* C1 amended: every return of requireModule that finds the resolved path in
\* a module registry table gives the exports object that the earlier returns
\* for that path from that same table gave, as long as no module.exports
\* assignment to the record came in between.
C1_SameExportsPerTableAndPath ==
    \A ev \in last.evs :
        ev.e = "requireModule returns"
        => /\ Has(hist.firstByPath, ev.key)
           /\ ev.v = hist.firstByPath[ev.key]

\* a second call of requireModule by the harness or a body was answered
\* from the same table for the same path
C1_Witness ==
    /\ last.st = "return" /\ last.by.op = "requireModule"
    /\ \E ev \in last.evs : ev.e = "requireModule returns" /\ ev.again

-----------------------------------------------------------------------------
(* C2: re-execution after resetModuleRegistry *)

MaxCallsReset == 5

InitReset == InitWith({""}, {FALSE}, {FALSE}, MaxCallsReset)

NamesReset == {nA, nB}

NextReset ==
    \/ \E from \in Callers, name \in NamesReset : DoRequireModule(from, name)
    \/ \E from \in Callers, name \in NamesReset : DoGenMockFromModule(from, name)
    \/ \E from \in Callers : JestResetModuleRegistry(from)
    \/ BodyReturn

SpecReset == InitReset /\ [][NextReset]_vars

\* the body of the module a "requireModule resolves" event is about is
\* entered in the same step
BodyEntered(ev) ==
    \E b \in last.evs : b.e = "body entered" /\ b.path = ev.path

\* C2 as stated: the first requireModule that resolves to a path since the
\* last resetModuleRegistry finds no record of it and executes its body
\* (for a file with a body, in a live environment).
C2_FirstSinceResetExecutes ==
    \A ev \in last.evs :
        (ev.e = "requireModule resolves" /\ ev.first /\ ev.hasBody /\ ev.env)
        => ~ev.present /\ BodyEntered(ev)

\* C2 amended: the first requireModule that resolves to a path and is
\* answered from the module registry table in place finds no record of the
\* path and executes its body, whether or not the body was executed before.
\* resetModuleRegistry puts a new, empty table in place.
C2_FirstInTableExecutes ==
    \A ev \in last.evs :
        (ev.e = "requireModule resolves" /\ ev.firstInTable /\ ev.hasBody
            /\ ev.env)
        => ~ev.present /\ BodyEntered(ev)

\* a module executed before a resetModuleRegistry is required for the first
\* time after it, and its body is entered again
C2_Witness ==
    \E ev \in last.evs :
        /\ ev.e = "requireModule resolves"
        /\ ev.first /\ ev.firstInTable /\ ev.ranBefore
        /\ BodyEntered(ev)

-----------------------------------------------------------------------------
(* C3: cyclic requires *)

\* C3: a require made by a module body never enters the body of a file that
\* is already executing under the same registries, and does not raise; it
\* returns the exports registered for the file.
C3_CyclicRequireReturns ==
    (last.call.op = "require" /\ last.call.from # T)
    => \A ev \in last.evs : ev.e = "body entered" => ~ev.reentered

-----------------------------------------------------------------------------
(* C4, C8: the mock registry and the mock factories *)

MaxCallsMocks == 4

InitMocks == InitWith({""}, {FALSE}, {FALSE}, MaxCallsMocks)

NamesMocks == {nX, nV}
FactoriesMocks == {[fresh |-> TRUE, v |-> Undefined]}
ValuesMocks == {Undefined, [k |-> "given", n |-> 0, p |-> None]}

NextMocks ==
    \/ \E from \in Callers, name \in NamesMocks : DoRequireMock(from, name)
    \/ \E from \in Callers, name \in NamesMocks, f \in FactoriesMocks,
          virtual \in BOOLEAN :
         JestMockFactory(from, name, f, virtual, "mock")
    \/ \E from \in Callers, name \in NamesMocks, v \in ValuesMocks :
         JestSetMock(from, name, v)
    \/ \E from \in Callers : JestResetModuleRegistry(from)
    \/ BodyReturn

SpecMocks == InitMocks /\ [][NextMocks]_vars

\* C4, for the calls made while no module body was ever entered: while a mock
\* registry table is in place, every requireMock(from, name) returns the
\* value the first one returned, and no mock is created for an id for which
\* one was created before.
C4_OneMockPerId ==
    hist.ran = {} =>
    \A ev \in last.evs :
        /\ ev.e = "requireMock returns" => ev.v = ev.first
        /\ ev.e = "mock created" => ~ev.again

\* C8: a step of resetModuleRegistry leaves both registries empty and leaves
\* the mock factories, the explicit flags, the virtual mocks and the automock
\* flag as they were; and a requireMock of an id that has a factory and no
\* mock in the registry invokes the factory and returns what it gave.
C8_ResetKeepsFactories ==
    /\ [][last'.call.op = "resetModuleRegistry"
            => /\ moduleRegistry'.m = EmptyFn
               /\ mockRegistry'.m = EmptyFn
               /\ UNCHANGED <<mockFactories, explicitShouldMock, virtualMocks,
                              shouldAutoMock>>]_vars
    /\ [][(/\ last'.call.op = "requireMock"
           /\ NormalizeID(Cur, last'.call.from, last'.call.name).err = NoErr
           /\ Has(mockFactories,
                  NormalizeID(Cur, last'.call.from, last'.call.name).v)
           /\ ~Has(mockRegistry.m,
                   NormalizeID(Cur, last'.call.from, last'.call.name).v))
            => /\ last'.st = "return"
               /\ \E ev \in last'.evs :
                    /\ ev.e = "mock created" /\ ev.how = "factory"
                    /\ ev.id = NormalizeID(Cur, last'.call.from,
                                           last'.call.name).v
               /\ last'.v = mockRegistry'.m[NormalizeID(Cur, last'.call.from,
                                                        last'.call.name).v]]_vars

\* a factory that made the mock of an id under an earlier mock registry table
\* is invoked again for the id under the table in place
C8_Witness ==
    /\ last.call.op = "requireMock" /\ last.st = "return"
    /\ \E ev \in last.evs :
         /\ ev.e = "mock created" /\ ev.how = "factory"
         /\ \E c \in hist.created :
                c.id = ev.id /\ c.how = "factory" /\ c.t # mockRegistry.t

-----------------------------------------------------------------------------
(* C5: _generateMock leaves the registries as they were *)

\* C5: when _generateMock returns after evaluating the module in isolation,
\* the module registry and the mock registry in place are the tables that
\* were in place when it was called, with the entries they had then.
C5_RegistriesRestored ==
    \A ev \in last.evs :
        ev.e = "_generateMock returns"
        => /\ ev.moduleAfter = ev.moduleBefore
           /\ ev.mockAfter = ev.mockBefore

\* _generateMock returns after the evaluated body replaced the registries
\* by resetModuleRegistry and modules were registered in the new ones,
\* while the registry from before the call had a module of its own
C5_Witness ==
    \E ev \in last.evs :
        /\ ev.e = "_generateMock returns"
        /\ ev.resetInside
        /\ ev.isolated.m # EmptyFn
        /\ ev.moduleBefore.m # EmptyFn
        /\ DOMAIN ev.isolated.m # DOMAIN ev.moduleBefore.m

-----------------------------------------------------------------------------
(* C6, C7: the explicit mock decisions *)

MaxCallsExplicit == 3

InitExplicit == InitWith({""}, {FALSE}, BOOLEAN, MaxCallsExplicit)

NamesExplicit == {nFs, nV, nX}

NextExplicit ==
    \/ \E from \in Callers, name \in NamesExplicit : DoRequire(from, name)
    \/ \E from \in Callers, name \in NamesExplicit : JestMock(from, name, "mock")
    \/ \E from \in Callers, name \in NamesExplicit, virtual \in BOOLEAN :
         JestMockFactory(from, name, [fresh |-> TRUE, v |-> Undefined],
                         virtual, "mock")
    \/ \E from \in Callers, name \in NamesExplicit, op \in {"unmock", "dontMock"} :
         JestUnmock(from, name, op)
    \/ \E from \in Callers, name \in NamesExplicit : JestDeepUnmock(from, name)
    \/ \E from \in Callers, flag \in BOOLEAN :
         JestAutomock(from, flag,
                      IF flag THEN "enableAutomock" ELSE "disableAutomock")
    \/ BodyReturn

SpecExplicit == InitExplicit /\ [][NextExplicit]_vars

\* the modules a call can come from
FromsExplicit == {T, MX, NX}

\* C6 as stated: in every state, _shouldMock(from, n) is false for every
\* caller and every core module name n.
C6_CoreNeverMocked ==
    \A from \in FromsExplicit, n \in CoreNames : ~ShouldMock(Cur, from, n).v

\* C6 amended: in every state, whatever the automock flag, _shouldMock(from, n)
\* is true for a core module name n only if n was explicitly mocked (its id
\* is set to true in explicitShouldMock) or registered as a virtual mock.
C6_CoreMockedOnlyExplicitly ==
    \A from \in FromsExplicit, n \in CoreNames :
        ShouldMock(Cur, from, n).v
        => \/ GetVirtualMockPath(from, n) \in virtualMocks
           \/ /\ Has(explicitShouldMock, ModuleID("node", n, None))
              /\ explicitShouldMock[ModuleID("node", n, None)]

\* with automock on, and explicit decisions made for other modules, a
\* require of a core module returned the core module itself
C6_Witness ==
    /\ last.call.op = "require" /\ last.st = "return"
    /\ last.call.name \in CoreNames
    /\ shouldAutoMock
    /\ explicitShouldMock # EmptyFn
    /\ last.v = CoreExports(last.call.name)

\* the require went to requireMock
TookMock ==
    \E ev \in last.evs : ev.e \in {"mock created", "requireMock returns"}

\* C7: a module's require(name) that does not throw goes to requireMock if
\* the most recent explicit call for the name was mock, and to requireModule
\* if it was unmock, dontMock or deepUnmock, whatever the automock flag and
\* the earlier calls.
C7_LastExplicitCallDecides ==
    (/\ last.call.op = "require" /\ last.st # "throw"
     /\ Has(hist.explicit, last.call.name))
    => (hist.explicit[last.call.name] = "mock" <=> TookMock)

-----------------------------------------------------------------------------
(* C9: what the methods of the control surface return *)

MaxCallsSurface == 3

InitSurface == InitWith({""}, {FALSE}, {FALSE}, MaxCallsSurface)

NamesSurface == {nA, nV}

\* the methods that end with `return runtime`
FluentOps == {"mock", "doMock", "setMock", "unmock", "dontMock", "deepUnmock",
              "enableAutomock", "disableAutomock", "autoMockOn", "autoMockOff",
              "resetModuleRegistry", "useFakeTimers", "useRealTimers"}

\* the methods that return what the call they wrap returns
TimerOps == {"clearAllTimers", "runAllTicks", "runAllImmediates",
             "runAllTimers", "runOnlyPendingTimers"}

NextSurface ==
    \/ \E from \in Callers, name \in NamesSurface : DoRequireModule(from, name)
    \/ \E from \in Callers, name \in NamesSurface, op \in {"mock", "doMock"} :
         JestMock(from, name, op)
    \/ \E from \in Callers, name \in NamesSurface, op \in {"mock", "doMock"} :
         JestMockFactory(from, name, [fresh |-> TRUE, v |-> Undefined], TRUE, op)
    \/ \E from \in Callers, name \in NamesSurface :
         JestSetMock(from, name, [k |-> "given", n |-> 0, p |-> None])
    \/ \E from \in Callers, name \in NamesSurface, op \in {"unmock", "dontMock"} :
         JestUnmock(from, name, op)
    \/ \E from \in Callers, name \in NamesSurface : JestDeepUnmock(from, name)
    \/ \E from \in Callers, op \in {"enableAutomock", "autoMockOn"} :
         JestAutomock(from, TRUE, op)
    \/ \E from \in Callers, op \in {"disableAutomock", "autoMockOff"} :
         JestAutomock(from, FALSE, op)
    \/ \E from \in Callers : JestResetModuleRegistry(from)
    \/ \E from \in Callers, op \in {"useFakeTimers", "useRealTimers"} :
         JestUseTimers(from, op)
    \/ \E from \in Callers, op \in TimerOps : JestTimers(from, op)
    \/ \E from \in Callers : JestAddMatchers(from)
    \/ BodyReturn

SpecSurface == InitSurface /\ [][NextSurface]_vars

-----------------------------------------------------------------------------
(* C10: haste modules in resolveModule *)

MaxCallsResolver == 3

InitResolver == InitWith({"", "ios"}, BOOLEAN, {FALSE}, MaxCallsResolver)

NamesResolver == {nH, nG, nK, nDep}
FromsResolver == {T, NX, <<"">>}

NextResolver ==
    \/ \E from \in FromsResolver, name \in NamesResolver, skip \in BOOLEAN :
         DoResolveModule(from, name, skip)
    \/ \E from \in Callers, name \in NamesResolver : DoRequireModule(from, name)
    \/ BodyReturn

SpecResolver == InitResolver /\ [][NextResolver]_vars

\* the platforms in the order of preference
PreferenceOrder ==
    (IF defaultPlatform # "" THEN <<defaultPlatform>> ELSE <<>>)
    \o (IF supportsNativePlatform THEN <<NATIVE_PLATFORM>> ELSE <<>>)
    \o <<GENERIC>>

\* the entries of name in the haste map on the first platform of the
\* preference order that has one
SelectedEntry(name) ==
    {HasteMapOf(name)[PreferenceOrder[i]] :
        i \in {j \in 1..Len(PreferenceOrder) :
                 /\ Has(HasteMapOf(name), PreferenceOrder[j])
                 /\ \A k \in 1..(j - 1) :
                        ~Has(HasteMapOf(name), PreferenceOrder[k])}}

-----------------------------------------------------------------------------
(* C11: resolveModule when nothing is found *)

\* the haste package the first segment of name selects has a file for the
\* rest of the name
FoundInPackage(name) ==
    \E entry \in SelectedEntry(<<name[1]>>) :
        /\ entry.type = H_PACKAGE
        /\ RequireResolve(Dirname(entry.path) \o Tail(name)) # None

\* the name cache, the haste lookup, node resolution and the haste-package
\* lookup all fail for (from, name)
AllLookupsFail(from, name, skip) ==
    /\ ~Has(moduleNameCache, <<Dirname(from), name>>)
    /\ \A entry \in SelectedEntry(name) : entry.type # H_MODULE
    /\ skip \/ FindNodeModule(name, Dirname(from)) = None
    /\ ~FoundInPackage(name)

\* what resolveModule(from, name) gave, res, is a path, or the error with the
\* code and the message, and then the name cache is as it was
ResolvesOrThrows(res, from, name, skip) ==
    /\ res.err = NoErr => (res.v # None /\ res.v # <<>>)
    /\ res.err # NoErr <=> AllLookupsFail(from, name, skip)
    /\ res.err # NoErr =>
          /\ res.err = MODULE_NOT_FOUND
          /\ res.s.moduleNameCache = moduleNameCache
          /\ \E ev \in res.s.evs :
                /\ ev.e = "resolveModule throws"
                /\ ev.code = MODULE_NOT_FOUND
                /\ ev.message =
                     <<"Cannot find module", name, "from",
                       IF Dirname(from) = from THEN <<".">>
                       ELSE <<Basename(from)>> >>

\* C11: in every state, for every caller and name, with or without node
\* resolution, resolveModule gives a path, or, exactly when the name cache,
\* the haste lookup, node resolution and the haste-package lookup all fail,
\* throws MODULE_NOT_FOUND with the message "Cannot find module '<name>' from
\* '<basename of from, or .>'" and leaves the name cache as it was.
C11_NotFoundThrowsUncached ==
    \A from \in FromsResolver, name \in NamesResolver, skip \in BOOLEAN :
        ResolvesOrThrows(ResolveModule(Cur, from, name, skip), from, name, skip)

\* resolveModule threw for a caller and a name for which it threw before,
\* and the name cache has entries for other names
C11_Witness ==
    /\ last.call.op = "resolveModule" /\ last.st = "throw"
    /\ last.err = MODULE_NOT_FOUND
    /\ moduleNameCache # EmptyFn
    /\ \E ev \in last.evs :
          /\ ev.e = "resolveModule throws" /\ ev.again
          /\ ev.from = last.call.from /\ ev.name = last.call.name

-----------------------------------------------------------------------------
(* C12: the process-level cache of ids and several runtime instances *)

MaxCallsInstances == 3

InitInstances == InitWith({"", "ios"}, {FALSE}, {FALSE}, MaxCallsInstances)

NamesInstances == {nA, nH, nV}

NextInstances ==
    \/ \E from \in Callers, name \in NamesInstances : DoRequireModule(from, name)
    \/ \E from \in Callers, name \in NamesInstances, virtual \in BOOLEAN :
         JestMockFactory(from, name, [fresh |-> TRUE, v |-> Undefined],
                         virtual, "mock")
    \/ \E from \in Callers, name \in NamesInstances :
         JestUnmock(from, name, "unmock")
    \/ \E platform \in {"", "ios"} : NewRuntime(platform, FALSE, FALSE)
    \/ BodyReturn

SpecInstances == InitInstances /\ [][NextInstances]_vars

\* the entries of normalizedIDCache that the running instance computed
OwnCache == [key \in DOMAIN normalizedIDCache \cap hist.own |->
                normalizedIDCache[key]]

\* _normalizeID(from, name) of the running instance if the other instances
\* had computed nothing
NormalizeIDAlone(from, name) ==
    NormalizeID([Cur EXCEPT !.normalizedIDCache = OwnCache], from, name)

\* C12: in every state of every instance, _normalizeID(from, name) gives the
\* id, or raises the error, that it gives when the entries the other
\* instances put in normalizedIDCache are not there.
C12_IdIndependentOfOtherInstances ==
    \A from \in {T, PA}, name \in NamesInstances :
        /\ NormalizeID(Cur, from, name).err = NormalizeIDAlone(from, name).err
        /\ NormalizeID(Cur, from, name).v = NormalizeIDAlone(from, name).v

-----------------------------------------------------------------------------
(* C13: the cache of mock decisions *)

MaxCallsTransitive == 4

InitTransitive == InitWith({""}, {FALSE}, {TRUE}, MaxCallsTransitive)

NamesTransitive == {nX, nDep, nLib, nG}

NextTransitive ==
    \/ \E from \in Callers, name \in NamesTransitive : DoRequire(from, name)
    \/ \E from \in Callers, name \in NamesTransitive : JestDeepUnmock(from, name)
    \/ \E from \in Callers, name \in NamesTransitive :
         JestUnmock(from, name, "unmock")
    \/ \E from \in Callers, name \in NamesTransitive : JestMock(from, name, "mock")
    \/ BodyReturn

SpecTransitive == InitTransitive /\ [][NextTransitive]_vars

\* the modules a call can come from
FromsTransitive == {T, NL, ND, NX}

\* _shouldMock(from, name) gets as far as the lookup in shouldMockModuleCache
\* and finds the id nid.v there
AnswersFromCache(nid, from, name) ==
    /\ GetVirtualMockPath(from, name) \notin virtualMocks
    /\ nid.err = NoErr
    /\ ~Has(explicitShouldMock, nid.v)
    /\ shouldAutoMock
    /\ name \notin CoreNames
    /\ <<from, nid.v>> \notin unmockTransitiveCache
    /\ Has(shouldMockModuleCache, nid.v)

\* _shouldMock(from, name) in the current state with no memoized decision
ShouldMockUncached(from, name) ==
    ShouldMock([Cur EXCEPT !.shouldMockModuleCache = EmptyFn], from, name)

\* C13: in every state, for every caller and name for which _shouldMock
\* answers from shouldMockModuleCache, the answer is what the steps after the
\* cache lookup (resolve, unmock-list test, transitive-unmock test, default
\* true) give for this caller and name in this state.
C13_CachedDecisionCoherent ==
    \A from \in FromsTransitive, name \in NamesTransitive :
        AnswersFromCache(NormalizeID(Cur, from, name), from, name)
        => /\ ShouldMockUncached(from, name).err = NoErr
           /\ ShouldMock(Cur, from, name).v = ShouldMockUncached(from, name).v

-----------------------------------------------------------------------------
(* C14: virtual mocks *)

MaxCallsVirtual == 4

InitVirtual == InitWith({""}, {FALSE}, BOOLEAN, MaxCallsVirtual)

NamesVirtual == {nV, nW, nX}

FactoriesVirtual ==
    {[fresh |-> TRUE, v |-> Undefined],
     [fresh |-> FALSE, v |-> [k |-> "given", n |-> 0, p |-> None]]}

NextVirtual ==
    \/ \E from \in Callers, name \in NamesVirtual : DoRequire(from, name)
    \/ \E from \in Callers, name \in NamesVirtual, f \in FactoriesVirtual,
          virtual \in BOOLEAN :
         JestMockFactory(from, name, f, virtual, "mock")
    \/ \E from \in Callers, name \in NamesVirtual :
         JestUnmock(from, name, "unmock")
    \/ \E from \in Callers : JestResetModuleRegistry(from)
    \/ BodyReturn

SpecVirtual == InitVirtual /\ [][NextVirtual]_vars

\* name, required from `from`, resolves to no file: it is no haste module,
\* has no manual mock, and neither node resolution nor a haste package
\* finds it
ResolvesToNoFile(from, name) ==
    /\ name \notin CoreNames
    /\ SelectedEntry(name) = {}
    /\ GetMockModule(Cur, from, name) = None
    /\ FindNodeModule(name, Dirname(from)) = None
    /\ ~FoundInPackage(name)

\* requireModuleOrMock, whose outcome is res, returned what a mock factory
\* gave, and resolveModule was not called
FactoryResultUnresolved(res) ==
    /\ res.err = NoErr /\ ~res.entered
    /\ res.ret.k \in {"made", "given"}
    /\ \A ev \in res.evs : ev.e # "resolveModule called"

-----------------------------------------------------------------------------
(* C15: the "currently executing" pointers *)

\* the frames of _execModule calls that end in a step: the frames the step
\* takes off the stack
EndedExecs ==
    {i \in (Len(stack') + 1)..Len(stack) : IsExec(stack[i])}

\* C15: a step in which calls of _execModule end, by the return of the body
\* or by an error, leaves in _currentlyExecutingModulePath and
\* _isCurrentlyExecutingManualMock the values they had when the outermost
\* of these calls began.
C15_PointersRestored ==
    [][\A i \in EndedExecs :
          (\A j \in EndedExecs : i <= j)
          => /\ currentlyExecutingModulePath' = stack[i].lastPath
             /\ isCurrentlyExecutingManualMock' = stack[i].origMM]_vars

-----------------------------------------------------------------------------
(* C16: records are installed before their bodies run *)

\* the record of the exec frame f is in the module registry under its path,
\* or its exports are in the mock registry
Installed(f) ==
    \/ /\ Has(moduleRegistry.m, f.path)
       /\ moduleRegistry.m[f.path] = f.rec
    \/ \E id \in DOMAIN mockRegistry.m :
          mockRegistry.m[id] = modules[f.rec].exports

\* C16: when a call has entered a module body, whether requireModule or
\* requireMock started it, the record being executed is installed in the
\* registry.  (A registry is a map from keys to records: it holds one record
\* per path by construction.)
C16_InstalledBeforeBody ==
    (last.st = "enter" /\ stack # <<>> /\ IsExec(Last(stack)))
    => Installed(Last(stack))

-----------------------------------------------------------------------------
(* C17: the transitive-unmock branch of _shouldMock *)

\* the id of the caller, _normalizeID(from), is marked in transitiveShouldMock
CallerTransitivelyUnmocked(from) ==
    /\ NormalizeID(Cur, from, NoName).err = NoErr
    /\ NormalizeID(Cur, from, NoName).v \in transitiveShouldMock

\* from and the path name resolves to are both under node_modules, and the
\* unmock list matches from or the caller's explicit flag is false
FlatInstallUnmocked(from, name) ==
    /\ IncludesNodeModules(from)
    /\ ResolveModule(Cur, from, name, FALSE).err = NoErr
    /\ IncludesNodeModules(ResolveModule(Cur, from, name, FALSE).v)
    /\ \/ UnmockListTest(from)
       \/ /\ NormalizeID(Cur, from, NoName).err = NoErr
          /\ Has(explicitShouldMock, NormalizeID(Cur, from, NoName).v)
          /\ ~explicitShouldMock[NormalizeID(Cur, from, NoName).v]

\* automock is on and the module nid.v that (from, name) names has no
\* explicit flag, no virtual mock and no memoized decision
Undecided(nid, from, name) ==
    /\ shouldAutoMock
    /\ GetVirtualMockPath(from, name) \notin virtualMocks
    /\ ~Has(explicitShouldMock, nid.v)
    /\ ~Has(shouldMockModuleCache, nid.v)
    /\ <<from, nid.v>> \notin unmockTransitiveCache

\* the outcome res of _shouldMock(from, name) is that of the
\* transitive-unmock branch, and asking again gives false
TransitivelyUnmocked(res, nid, from, name) ==
    /\ res.err = NoErr
    /\ ~res.v
    /\ nid.v \in res.s.transitiveShouldMock
    /\ <<from, nid.v>> \in res.s.unmockTransitiveCache
    /\ res.s.shouldMockModuleCache = shouldMockModuleCache
    /\ ~ShouldMock(res.s, from, name).v

\* C17 as stated: in every state, for every caller and name with no decision
\* yet, if the caller is transitively unmocked or the flat-install condition
\* holds, _shouldMock gives the outcome of the transitive-unmock branch.
C17_TransitiveBranchTaken ==
    \A from \in FromsTransitive, name \in NamesTransitive \cup CoreNames :
        (/\ Undecided(NormalizeID(Cur, from, name), from, name)
         /\ \/ CallerTransitivelyUnmocked(from)
            \/ FlatInstallUnmocked(from, name))
        => TransitivelyUnmocked(ShouldMock(Cur, from, name),
                                NormalizeID(Cur, from, name), from, name)

\* C17 amended: the same, for a name that is not a core module and resolves
\* to a path that the unmock list does not match.
C17_TransitiveBranchAfterUnmockList ==
    \A from \in FromsTransitive, name \in NamesTransitive \cup CoreNames :
        (/\ Undecided(NormalizeID(Cur, from, name), from, name)
         /\ name \notin CoreNames
         /\ ResolveModule(Cur, from, name, FALSE).err = NoErr
         /\ ~UnmockListTest(ResolveModule(Cur, from, name, FALSE).v)
         /\ \/ CallerTransitivelyUnmocked(from)
            \/ FlatInstallUnmocked(from, name))
        => TransitivelyUnmocked(ShouldMock(Cur, from, name),
                                NormalizeID(Cur, from, name), from, name)

\* a module under node_modules that the unmock list matches required a
\* module under node_modules: the branch was taken and the require did not
\* go to requireMock
C17_Witness ==
    /\ last.call.op = "require" /\ last.st # "throw"
    /\ IncludesNodeModules(last.call.from)
    /\ UnmockListTest(last.call.from)
    /\ \E ev \in last.evs :
          /\ ev.e = "transitively unmocked"
          /\ ev.from = last.call.from
          /\ <<ev.from, ev.id>> \in unmockTransitiveCache
          /\ ~Has(shouldMockModuleCache, ev.id)
    /\ ~TookMock

-----------------------------------------------------------------------------
(* C18: transitive unmock along a chain of requires *)

\* the module that (from, name) names is explicitly mocked or virtual
MockedOnPurpose(nid, from, name) ==
    \/ GetVirtualMockPath(from, name) \in virtualMocks
    \/ /\ nid.err = NoErr
       /\ Has(explicitShouldMock, nid.v)
       /\ explicitShouldMock[nid.v]

\* the require went to requireModule and that took the file at path
DeliveredReal(l, path) ==
    /\ l.st # "throw"
    /\ \A ev \in l.evs : ev.e \notin {"mock created", "requireMock returns"}
    /\ \E ev \in l.evs : ev.e = "requireModule resolves" /\ ev.path = path

\* C18: with automock on, a require(name) made by the body of a file that is
\* on a chain of requires starting in a deep-unmocked module, for a name that
\* resolves and is neither explicitly mocked nor virtual, is delivered the
\* real module: the file the name resolves to.
C18_ChainDeliveredReal ==
    [][(/\ last'.call.op = "require"
        /\ last'.call.from \in hist.chain
        /\ shouldAutoMock
        /\ ResolveModule(Cur, last'.call.from, last'.call.name, FALSE).err = NoErr
        /\ ~MockedOnPurpose(NormalizeID(Cur, last'.call.from, last'.call.name),
                            last'.call.from, last'.call.name))
       => DeliveredReal(last',
             ResolveModule(Cur, last'.call.from, last'.call.name, FALSE).v)]_vars

-----------------------------------------------------------------------------
(* C19: the manual mock in place of the module in requireModule *)

\* the body of the file at path is executing: entered and not yet returned
Executing(path) ==
    \E i \in 1..Len(stack) : IsExec(stack[i]) /\ stack[i].path = path

\* name is no haste module, it has a manual mock, the explicit flag of its id
\* is not false and the manual mock's body is not executing
ManualMockExpected(nid, from, name) ==
    /\ SelectedEntry(name) = {} \/ \A e \in SelectedEntry(name) : e.type # H_MODULE
    /\ GetMockModule(Cur, from, name) # None
    /\ ~(Has(explicitShouldMock, nid.v) /\ ~explicitShouldMock[nid.v])
    /\ ~Executing(GetMockModule(Cur, from, name))

\* the path a requireModule(from, name) is expected to take
ExpectedPath(nid, from, name) ==
    IF ManualMockExpected(nid, from, name)
    THEN GetMockModule(Cur, from, name)
    ELSE ResolveModule(Cur, from, name, FALSE).v

\* C19: a requireModule(from, name) made by the harness or by a module body
\* takes the manual mock's path exactly when the name is no haste module, has
\* a manual mock whose body is not executing at any depth, and the explicit
\* flag of its id is not false; otherwise it takes the path the name
\* resolves to.
C19_ManualMockUnlessExecuting ==
    [][(/\ last'.call.op = "requireModule"
        /\ last'.call.name \notin CoreNames
        /\ NormalizeID(Cur, last'.call.from, last'.call.name).err = NoErr)
       => \A ev \in last'.evs :
             ev.e = "requireModule resolves"
             => ev.path = ExpectedPath(
                            NormalizeID(Cur, last'.call.from, last'.call.name),
                            last'.call.from, last'.call.name)]_vars

-----------------------------------------------------------------------------
(* C20: internal modules *)

MaxCallsInternal == 4

InitInternal == InitWith({""}, {FALSE}, BOOLEAN, MaxCallsInternal)

NamesInternal == {nX, nA}

NextInternal ==
    \/ \E from \in HarnessFroms, name \in NamesInternal :
         DoRequireInternalModule(from, name)
    \/ \E from \in Callers, name \in NamesInternal : DoRequire(from, name)
    \/ \E from \in Callers, name \in NamesInternal : JestMock(from, name, "mock")
    \/ \E from \in Callers, name \in NamesInternal :
         JestSetMock(from, name, [k |-> "given", n |-> 0, p |-> None])
    \/ BodyReturn

SpecInternal == InitInternal /\ [][NextInternal]_vars

\* what a require(name) made by an internal module did, l being its outcome:
\* no _shouldMock, no requireMock, the file the name resolves to and no
\* manual mock in its place, and a body it entered runs as internal
InternalRequire(l, path, stk) ==
    /\ \A ev \in l.evs :
          /\ ev.e \notin {"_shouldMock called", "mock created",
                          "requireMock returns"}
          /\ ev.e = "requireModule resolves" => ev.path = path
    /\ l.st = "return" => l.v.k \in {"exports", "assigned"}
    /\ l.st = "enter" => /\ Last(stk).path = path
                         /\ Last(stk).internal

\* C20: whatever the automock flag, the explicit flags and the mock
\* factories, a require(name) made by the body of a module executed as
\* internal does not consult _shouldMock, does not go to requireMock, takes
\* the file the name resolves to and not its manual mock, and executes a
\* module it is the first to execute as internal.
C20_InternalRequireStaysInternal ==
    [][(/\ last'.call.op = "require"
        /\ stack # <<>>
        /\ Last(stack).internal
        /\ ResolveModule(Cur, last'.call.from, last'.call.name, FALSE).err = NoErr)
       => InternalRequire(last',
             ResolveModule(Cur, last'.call.from, last'.call.name, FALSE).v,
             stack')]_vars

\* an internal module required a name that has a manual mock and is
\* explicitly mocked, and the body of the real file was entered as internal
C20_Witness ==
    /\ last.call.op = "require" /\ last.st = "enter"
    /\ Len(stack) >= 3
    /\ Last(stack).internal
    /\ GetMockModule(Cur, last.call.from, last.call.name) # None
    /\ Last(stack).path # GetMockModule(Cur, last.call.from, last.call.name)
    /\ \E id \in DOMAIN explicitShouldMock :
          explicitShouldMock[id] /\ id.mock = GetMockModule(Cur, last.call.from,
                                                            last.call.name)

-----------------------------------------------------------------------------
(* C21: the environment torn down *)

MaxCallsTeardown == 3

InitTeardown == InitWith({""}, {FALSE}, BOOLEAN, MaxCallsTeardown)

NamesTeardown == {nX, nA, nG}

NextTeardown ==
    \/ TearDown
    \/ \E from \in Callers, name \in NamesTeardown : DoRequireModule(from, name)
    \/ \E from \in Callers, name \in NamesTeardown : DoRequireMock(from, name)
    \/ \E from \in Callers, name \in NamesTeardown : DoRequire(from, name)
    \/ BodyReturn

SpecTeardown == InitTeardown /\ [][NextTeardown]_vars

\* the call came to _execModule: requireModule registered a new record for a
\* file with a body, or requireMock made the record of a manual mock
ReachesExecModule(evs) ==
    \E ev \in evs :
       \/ /\ ev.e = "requireModule resolves"
          /\ ~ev.present
          /\ ev.hasBody
       \/ /\ ev.e = "mock created"
          /\ ev.how = "manual"

\* C21: with _environment.global removed, a requireModule, requireMock or
\* require call that comes to _execModule returns to its caller: no body is
\* entered, both "currently executing" pointers stay as they were, the
\* records that existed are unchanged and each record the call made has the
\* exports object it was created with.
C21_ExecModuleNoOpAfterTeardown ==
    [][(/\ ~envGlobal
        /\ last'.call.op \in {"requireModule", "requireMock", "require"}
        /\ ReachesExecModule(last'.evs))
       => /\ last'.st = "return"
          /\ stack' = stack
          /\ \A ev \in last'.evs : ev.e # "body entered"
          /\ currentlyExecutingModulePath' = currentlyExecutingModulePath
          /\ isCurrentlyExecutingManualMock' = isCurrentlyExecutingManualMock
          /\ \A r \in DOMAIN modules : modules'[r] = modules[r]
          /\ \A r \in DOMAIN modules' \ DOMAIN modules :
                modules'[r].exports = NewExports(r, modules'[r].filename)]_vars

\* after the teardown, a body that was executing called requireMock for a
\* name with a manual mock and received the mock's untouched exports
C21_Witness ==
    /\ ~envGlobal
    /\ stack # <<>>
    /\ last.call.op = "requireMock"
    /\ last.st = "return"
    /\ last.v.k = "exports"
    /\ \E ev \in last.evs : ev.e = "mock created" /\ ev.how = "manual"

-----------------------------------------------------------------------------------------------------------------------------------------------------
(* C22: automock generation on modules that require each other *)

MaxCallsCycle == 7     \* calls in a run
ReserveCycle == 3      \* calls left when the harness makes one
MaxDepthCycle == 12    \* frames on the call stack
FramesPerRequire == 4  \* requireMock, _generateMock, requireModule, _execModule

InitCycle == InitWithDepth({""}, {FALSE}, {TRUE}, MaxCallsCycle, MaxDepthCycle)

\* './b' is /p/b.js and 'G' is /p/h.js from every caller: neither has a
\* manual mock
NamesCycle == {nB, nG}

\* The harness asks for the automock of a module.  The body of each module
\* requires one of the modules and returns when it has the result.
NextCycle ==
    \/ /\ stack = <<>>
       /\ hist.left >= ReserveCycle
       /\ \E name \in NamesCycle : DoGenMockFromModule(T, name)
    \/ /\ stack = <<>>
       /\ hist.left >= ReserveCycle
       /\ \E name \in NamesCycle : DoRequireMock(T, name)
    \/ /\ AtBody
       /\ last.st = "enter"
       /\ \E name \in NamesCycle : DoRequire(Last(stack).path, name)
    \/ /\ last.st # "enter"
       /\ BodyReturn

\* the guards of NextCycle
CanStepCycle ==
    \/ stack = <<>> /\ hist.left >= ReserveCycle
    \/ AtBody /\ last.st = "enter" /\ hist.left > 0
    \/ AtBody /\ last.st # "enter"

\* JavaScript runs a call to its end: while a step can be taken, one is
\* taken (weak fairness of NextCycle, with its guards written out)
SpecCycle ==
    /\ InitCycle
    /\ [][NextCycle]_vars
    /\ ([]<>(~CanStepCycle) \/ []<><<NextCycle>>_vars)

\* a body that has to make its require can make it: the bounds on the calls
\* and on the stack leave room for it
BodyCanRequire ==
    (stack # <<>> /\ last.st = "enter")
       => /\ AtBody
          /\ hist.left > 0
          /\ Len(stack) + FramesPerRequire <= MaxDepthCycle

\* no path is evaluated for its metadata a second time
EvaluatedOnce ==
    \A ev \in last.evs : ev.e = "evaluated for metadata" => ~ev.again

\* C22: with automock on and modules whose bodies require each other, a
\* _generateMock or requireMock call of the harness comes back: no path is
\* evaluated for its metadata twice, the bodies never need more calls or
\* more stack than the bounds leave them, and every call that entered a body
\* ends with the stack empty again.
C22_AutomockTerminatesOnCycles ==
    /\ [](EvaluatedOnce /\ BodyCanRequire /\ (stack # <<>> => AtBody))
    /\ ((stack # <<>>) ~> (stack = <<>>))

\* the body of /p/h.js, evaluated for the automock of 'G' that the body of
\* /p/b.js required while it was evaluated for its own automock, required
\* './b' back and received a mock made from the placeholder metadata
C22_Witness ==
    /\ Len(stack) >= 8
    /\ last.call.op = "require"
    /\ last.st = "return"
    /\ last.v.k = "automock of {}"
    /\ \E i, j \in 1..Len(stack) :
          /\ i < j
          /\ stack[i].k = "_generateMock" /\ stack[i].path = PB
          /\ stack[j].k = "_generateMock" /\ stack[j].path = PH
          /\ last.v.p = PB

-----------------------------------------------------------------------------
(* C23: resolveModule with skipNodeResolution *)

\* res is the haste module of name, the file of name in its haste package,
\* or the MODULE_NOT_FOUND error
HasteOrNotFound(res, name) ==
    IF res.err # NoErr THEN res.err = MODULE_NOT_FOUND
    ELSE \/ res.v = GetModule(Cur, name)
         \/ res.v = ResolveInPackage(GetPackage(Cur, <<name[1]>>), name)

\* C23: in every state, whatever resolveModule calls were made before, with
\* or without skipNodeResolution, resolveModule(from, name,
\* {skipNodeResolution: true}) gives the haste module of name, the file the
\* name has in its haste package, or the MODULE_NOT_FOUND error: never a path
\* that only node resolution finds.
C23_SkipNeverNodeResolved ==
    \A from \in FromsResolver, name \in NamesResolver :
        HasteOrNotFound(ResolveModule(Cur, from, name, TRUE), name)

-----------------------------------------------------------------------------
(* C24: getMockModule and the name mapper *)

MaxCallsMapper == 3

InitMapper == InitWith({"", "ios"}, {FALSE}, {FALSE}, MaxCallsMapper)

NamesMapper == {nRealX, nRealY, nAltX, nX, nA}
FromsMapper == {T, NX}

NextMapper ==
    \/ \E from \in FromsMapper, name \in NamesMapper : DoGetMockModule(from, name)
    \/ \E from \in Callers, name \in NamesMapper : DoRequireModule(from, name)
    \/ \E from \in Callers, name \in NamesMapper : DoRequireMock(from, name)
    \/ BodyReturn

SpecMapper == InitMapper /\ [][NextMapper]_vars

\* what the i-th entry of the name mapper gives for name: None when its
\* regex does not match or the substituted name is not found
EntryResolution(i, from, name) ==
    IF ~MapperMatches(ModuleNameMapper[i], name) THEN None
    ELSE StubMapped(MapperReplace(ModuleNameMapper[i], name),
                    GetModule(Cur, MapperReplace(ModuleNameMapper[i], name)),
                    from)

Matching(name) ==
    {i \in 1..Len(ModuleNameMapper) : MapperMatches(ModuleNameMapper[i], name)}

Resolving(from, name) ==
    {i \in 1..Len(ModuleNameMapper) : EntryResolution(i, from, name) # None}

\* the least element of a set of indices
First(is) == CHOOSE i \in is : \A j \in is : i <= j

\* the first entry that resolves decides
FirstResolvingWins(from, name) ==
    IF Has(HasteMocks, name) THEN HasteMocks[name]
    ELSE IF Resolving(from, name) = {} THEN None
    ELSE EntryResolution(First(Resolving(from, name)), from, name)

\* the first entry that matches decides
FirstMatchingWins(from, name) ==
    IF Has(HasteMocks, name) THEN HasteMocks[name]
    ELSE IF Matching(name) = {} THEN None
    ELSE EntryResolution(First(Matching(name)), from, name)

\* C24 as stated: getMockModule(from, name) gives the haste mock of name when
\* there is one; otherwise what the first name-mapper entry that matches and
\* resolves gives, and null only when no matching entry resolves.
C24_FirstResolvingEntryWins ==
    last.call.op = "getMockModule"
       => last.v.p = FirstResolvingWins(last.call.from, last.call.name)

\* C24 amended: getMockModule(from, name) gives the haste mock of name when
\* there is one; otherwise what the first name-mapper entry whose regex
\* matches gives, null when that entry's substituted name is not found
\* (later entries are not tried), and null when no entry matches.
C24_FirstMatchingEntryWins ==
    last.call.op = "getMockModule"
       => last.v.p = FirstMatchingWins(last.call.from, last.call.name)

\* getMockModule gave null for a name that two entries match, the first of
\* which does not resolve while the second does
C24_Witness ==
    /\ last.call.op = "getMockModule"
    /\ last.v.p = None
    /\ Matching(last.call.name) = {1, 2}
    /\ Resolving(last.call.from, last.call.name) = {2}

-----------------------------------------------------------------------------
(* C25: _generateMock when the evaluation raises *)

\* the _generateMock calls that were evaluating a module in stk and that
\* the error ended: their frames are not in stkAfter
EndedGenerate(stk, stkAfter) ==
    {i \in (Len(stkAfter) + 1)..Len(stk) : stk[i].k = "_generateMock"}

\* C25: when an error (of the body, or of getMetadata giving null) ends
\* _generateMock calls that were evaluating a module, the registries in place
\* are the ones the outermost of them was called under and
\* mockMetaDataCache has no entry for a path they were evaluating.
C25_GenerateMockUndoneOnError ==
    [][(last'.st = "throw" /\ EndedGenerate(stack, stack') # {})
       => /\ \A i \in EndedGenerate(stack, stack') :
                ~Has(mockMetaDataCache', stack[i].path)
          /\ \A i \in EndedGenerate(stack, stack') :
                (\A j \in EndedGenerate(stack, stack') : i <= j)
                   => /\ mockRegistry' = stack[i].origMock
                      /\ moduleRegistry' = stack[i].origModule]_vars

-----------------------------------------------------------------------------
(* C26: requiring a mock after setMock or mock with a factory *)

\* v is what the factory gives when it is called now: the given value, or an
\* object made after n references were allocated
ResultOf(factory, v, n) ==
    IF factory.fresh THEN v.k = "made" /\ v.n >= n ELSE v = factory.v

\* C26: when setMock(name, value) or mock(name, factory) was called from a
\* module, the next requireMock(from, name) made from that module, directly
\* or through requireModuleOrMock, returns the value supplied (what the new
\* factory gives), whether or not a mock of that id had been required
\* before.
C26_NextRequireTakesNewMock ==
    [][(/\ last'.call.op \in {"requireMock", "require"}
        /\ Has(hist.supplied, <<last'.call.from, last'.call.name>>))
       => /\ last'.st = "return"
          /\ ResultOf(hist.supplied[<<last'.call.from, last'.call.name>>],
                      last'.v, nextId)]_vars

====
